---- MODULE Spec2Model ----
(***************************************************************************)
(* Deplobox: the webhook handler, the per-project lock manager, the        *)
(* deployment pipeline, the history store and the restore command, as a    *)
(* state machine over a project's release tree.                            *)
(***************************************************************************)
EXTENDS Integers, Sequences, FiniteSets, TLC

(***************************************************************************)
(* Bounds of the model.                                                    *)
(***************************************************************************)
\* webhook requests in one behaviour (request slots 1..MaxRequests)
MaxRequests == 2
\* clock ticks (seconds) in one behaviour
MaxTicks == 2
\* length of the project's post_deploy list
NumPostDeploy == 2
\* length of the project's post_activate list
NumPostActivate == 1
MaxRateTicks == 20
MaxSecretLen == 64
\* the SandboxedExecutors that are created
MaxExecutors == 3

(***************************************************************************)
(* Program constants.                                                      *)
(***************************************************************************)
DefaultKeepReleases == 5
MaxPayloadBytes == 1000000

StatusOK == 200
StatusAccepted == 202
StatusBadRequest == 400
StatusForbidden == 403
StatusNotFound == 404
StatusRequestTimeout == 408
StatusRequestEntityTooLarge == 413
StatusUnsupportedMediaType == 415
StatusTooManyRequests == 429
StatusInternalServerError == 500

SignaturePrefix == "sha256="

\* project.MinSecretLength, the minimum of the configuration loader, and
\* security.MinSecretLength, the minimum of security.ValidateSecret
MinSecretLength == 32
SecurityMinSecretLength == 48

\* server.GlobalRateLimit, server.WebhookRateLimit
GlobalRateLimit == 12
WebhookRateLimit == 4
\* the periods NewRateLimitMiddleware and NewWebhookRateLimitMiddleware
\* divide their limits by, in seconds
HourSeconds == 3600
MinuteSeconds == 60
\* the granularity of the limiters' time in the model, and the fraction of a
\* token their buckets are counted in: one tick refills the webhook bucket by
\* one token and the global bucket by 1/20 of a token
TickSeconds == 15
TokenScale == 20

(***************************************************************************)
(* The project registry (immutable after load).                            *)
(***************************************************************************)
Projects == {"app", "api"}

Registry ==
    [p \in Projects |->
        IF p = "app" THEN [Secret |-> "s_app", Branch |-> "main"]
                     ELSE [Secret |-> "s_api", Branch |-> "main"]]

\* Registry.Get: is the name a key of the map
RegistryHas(name) == name \in Projects

\* security.ValidateProjectName on the names the model sends
ValidateProjectName(name) == name \in {"app", "api", "ghost"}

(***************************************************************************)
(* Request inputs.                                                         *)
(***************************************************************************)
\* URL names: two registered projects, an unregistered one, an invalid one
UrlNames == {"app", "api", "ghost", "-bad"}

\* raw request bodies
RawBodies == {"b_main", "b_dev", "b_tag", "b_empty", "b_refnum", "b_garbage"}

\* json.Unmarshal into map[string]interface{}: ok is err == nil, len is
\* len(payload), ref is payload["ref"] when it is a string ("" with isStr
\* FALSE otherwise)
JSONUnmarshal(body) ==
    CASE body = "b_main"   -> [ok |-> TRUE, len |-> 2, isStr |-> TRUE, ref |-> "refs/heads/main"]
      [] body = "b_dev"    -> [ok |-> TRUE, len |-> 1, isStr |-> TRUE, ref |-> "refs/heads/dev"]
      [] body = "b_tag"    -> [ok |-> TRUE, len |-> 1, isStr |-> TRUE, ref |-> "refs/tags/main"]
      [] body = "b_empty"  -> [ok |-> TRUE, len |-> 0, isStr |-> FALSE, ref |-> ""]
      [] body = "b_refnum" -> [ok |-> TRUE, len |-> 1, isStr |-> FALSE, ref |-> ""]
      [] OTHER             -> [ok |-> FALSE, len |-> 0, isStr |-> FALSE, ref |-> ""]

\* hex(HMAC-SHA256(secret, payload)), idealised as an injective pairing
HMACHex(secret, payload) == <<secret, payload>>

\* an X-Hub-Signature-256 header value: prefix followed by a digest
NoSignature == [prefix |-> "", digest |-> <<"", "">>]
SigHeader(prefix, digest) == [prefix |-> prefix, digest |-> digest]

\* the key a legitimate sender of a webhook for this URL name holds
SenderSecret(name) == IF name \in Projects THEN Registry[name].Secret ELSE "s_app"

OtherBody(body) == IF body = "b_main" THEN "b_dev" ELSE "b_main"

SigKinds == {"valid", "wrongkey", "otherbody", "sha1", "missing", "badhex"}

SignatureOf(kind, name, body) ==
    CASE kind = "valid"     -> SigHeader(SignaturePrefix, HMACHex(SenderSecret(name), body))
      [] kind = "wrongkey"  -> SigHeader(SignaturePrefix, HMACHex("s_wrong", body))
      [] kind = "otherbody" -> SigHeader(SignaturePrefix, HMACHex(SenderSecret(name), OtherBody(body)))
      [] kind = "sha1"      -> SigHeader("sha1=", HMACHex(SenderSecret(name), body))
      [] kind = "badhex"    -> SigHeader(SignaturePrefix, <<"zz", "zz">>)
      [] OTHER              -> NoSignature

\* one webhook request: URL name, Content-Length, Content-Type,
\* X-GitHub-Event, whether reading the body fails, body, signature header
MkRequest(name, clen, ctype, event, readErr, body, sigKind) ==
    [name |-> name, clen |-> clen, ctype |-> ctype, event |-> event,
     readErr |-> readErr, body |-> body, sig |-> SignatureOf(sigKind, name, body)]

NoRequest == MkRequest("", 0, "", "", FALSE, "", "missing")

AllRequests ==
    { MkRequest(n, c, t, e, re, b, k) :
        n \in {"app", "ghost", "-bad"}, c \in {25, MaxPayloadBytes + 1},
        t \in {"application/json", "text/plain"}, e \in {"push", "ping"},
        re \in BOOLEAN, b \in RawBodies, k \in SigKinds }

PushTo(name, body, kind) ==
    MkRequest(name, 25, "application/json", "push", FALSE, body, kind)

\* the requests of the concurrent specification: correctly signed pushes to
\* the target branch and to another branch, a push signed with a wrong
\* secret, and a push for an unregistered project
MainRequests ==
    { PushTo("app", "b_main", "valid"), PushTo("app", "b_dev", "valid"),
      PushTo("app", "b_main", "wrongkey"), PushTo("ghost", "b_main", "valid") }

(***************************************************************************)
(* Pure functions of the handler.                                          *)
(***************************************************************************)
VerifySignatureNoCheck(payload, signature, secret) == TRUE

\* server.VerifySignature
VerifySignature(payload, signature, secret) ==
    IF signature = NoSignature THEN FALSE
    ELSE IF signature.prefix # SignaturePrefix THEN FALSE
    ELSE signature.digest = HMACHex(secret, payload)

\* Project.MatchesRef
MatchesRef(branch, ref) == ref = "refs/heads/" \o branch

ShouldDeployAnyRef(proj, payload) == payload.isStr

\* Deployment.ShouldDeploy
ShouldDeploy(proj, payload) ==
    IF ~payload.isStr THEN FALSE ELSE MatchesRef(proj.Branch, payload.ref)

Outcome(steps, code, msg) == [steps |-> steps, code |-> code, msg |-> msg]

\* a handler that decodes the body before it verifies the signature
GateParseFirst(in) ==
    IF ~ValidateProjectName(in.name)
        THEN Outcome(<<"name">>, StatusBadRequest, "Invalid project name")
    ELSE IF ~RegistryHas(in.name)
        THEN Outcome(<<"name", "registry">>, StatusNotFound, "Unknown project")
    ELSE IF in.clen > MaxPayloadBytes
        THEN Outcome(<<"name", "registry", "size">>, StatusRequestEntityTooLarge, "Payload too large")
    ELSE IF in.ctype # "application/json"
        THEN Outcome(<<"name", "registry", "size", "ctype">>, StatusUnsupportedMediaType, "Invalid content type")
    ELSE IF in.event # "push"
        THEN Outcome(<<"name", "registry", "size", "ctype", "event">>, StatusOK, "Ignoring non-push event")
    ELSE IF in.readErr
        THEN Outcome(<<"name", "registry", "size", "ctype", "event", "read">>,
                     StatusInternalServerError, "Failed to read payload")
    ELSE IF ~JSONUnmarshal(in.body).ok
        THEN Outcome(<<"name", "registry", "size", "ctype", "event", "read", "parse">>,
                     StatusBadRequest, "Invalid JSON payload")
    ELSE IF ~VerifySignature(in.body, in.sig, Registry[in.name].Secret)
        THEN Outcome(<<"name", "registry", "size", "ctype", "event", "read", "parse", "verify">>,
                     StatusForbidden, "Invalid signature")
    ELSE IF JSONUnmarshal(in.body).len = 0
        THEN Outcome(<<"name", "registry", "size", "ctype", "event", "read", "parse", "verify", "len">>,
                     StatusOK, "Missing payload, skipping")
    ELSE IF ~ShouldDeploy(Registry[in.name], JSONUnmarshal(in.body))
        THEN Outcome(<<"name", "registry", "size", "ctype", "event", "read", "parse", "verify", "len", "branch">>,
                     StatusOK, "Not target branch, skipping")
    ELSE Outcome(<<"name", "registry", "size", "ctype", "event", "read", "parse", "verify", "len", "branch", "trylock">>,
                 0, "")

\* Server.HandleWebhook up to the lock: the checks in the order the handler
\* makes them, the steps it executed, and the response it wrote (code 0: none
\* yet, the handler goes on to TryLock)
Gate(in) ==
    IF ~ValidateProjectName(in.name)
        THEN Outcome(<<"name">>, StatusBadRequest, "Invalid project name")
    ELSE IF ~RegistryHas(in.name)
        THEN Outcome(<<"name", "registry">>, StatusNotFound, "Unknown project")
    ELSE IF in.clen > MaxPayloadBytes
        THEN Outcome(<<"name", "registry", "size">>, StatusRequestEntityTooLarge, "Payload too large")
    ELSE IF in.ctype # "application/json"
        THEN Outcome(<<"name", "registry", "size", "ctype">>, StatusUnsupportedMediaType, "Invalid content type")
    ELSE IF in.event # "push"
        THEN Outcome(<<"name", "registry", "size", "ctype", "event">>, StatusOK, "Ignoring non-push event")
    ELSE IF in.readErr
        THEN Outcome(<<"name", "registry", "size", "ctype", "event", "read">>,
                     StatusInternalServerError, "Failed to read payload")
    ELSE IF ~VerifySignature(in.body, in.sig, Registry[in.name].Secret)
        THEN Outcome(<<"name", "registry", "size", "ctype", "event", "read", "verify">>,
                     StatusForbidden, "Invalid signature")
    ELSE IF ~JSONUnmarshal(in.body).ok
        THEN Outcome(<<"name", "registry", "size", "ctype", "event", "read", "verify", "parse">>,
                     StatusBadRequest, "Invalid JSON payload")
    ELSE IF JSONUnmarshal(in.body).len = 0
        THEN Outcome(<<"name", "registry", "size", "ctype", "event", "read", "verify", "parse", "len">>,
                     StatusOK, "Missing payload, skipping")
    ELSE IF ~ShouldDeploy(Registry[in.name], JSONUnmarshal(in.body))
        THEN Outcome(<<"name", "registry", "size", "ctype", "event", "read", "verify", "parse", "len", "branch">>,
                     StatusOK, "Not target branch, skipping")
    ELSE Outcome(<<"name", "registry", "size", "ctype", "event", "read", "verify", "parse", "len", "branch", "trylock">>,
                 0, "")

\* the second HandleWebhook of the repository (the one that logs each step):
\* the same checks in the same order, without the check of X-GitHub-Event
GateLogged(in) ==
    IF ~ValidateProjectName(in.name)
        THEN Outcome(<<"name">>, StatusBadRequest, "Invalid project name")
    ELSE IF ~RegistryHas(in.name)
        THEN Outcome(<<"name", "registry">>, StatusNotFound, "Unknown project")
    ELSE IF in.clen > MaxPayloadBytes
        THEN Outcome(<<"name", "registry", "size">>, StatusRequestEntityTooLarge, "Payload too large")
    ELSE IF in.ctype # "application/json"
        THEN Outcome(<<"name", "registry", "size", "ctype">>, StatusUnsupportedMediaType, "Invalid content type")
    ELSE IF in.readErr
        THEN Outcome(<<"name", "registry", "size", "ctype", "read">>,
                     StatusInternalServerError, "Failed to read payload")
    ELSE IF ~VerifySignature(in.body, in.sig, Registry[in.name].Secret)
        THEN Outcome(<<"name", "registry", "size", "ctype", "read", "verify">>,
                     StatusForbidden, "Invalid signature")
    ELSE IF ~JSONUnmarshal(in.body).ok
        THEN Outcome(<<"name", "registry", "size", "ctype", "read", "verify", "parse">>,
                     StatusBadRequest, "Invalid JSON payload")
    ELSE IF JSONUnmarshal(in.body).len = 0
        THEN Outcome(<<"name", "registry", "size", "ctype", "read", "verify", "parse", "len">>,
                     StatusOK, "Missing payload, skipping")
    ELSE IF ~ShouldDeploy(Registry[in.name], JSONUnmarshal(in.body))
        THEN Outcome(<<"name", "registry", "size", "ctype", "read", "verify", "parse", "len", "branch">>,
                     StatusOK, "Not target branch, skipping")
    ELSE Outcome(<<"name", "registry", "size", "ctype", "read", "verify", "parse", "len", "branch", "trylock">>,
                 0, "")

(***************************************************************************)
(* State.                                                                  *)
(***************************************************************************)
VARIABLES
    testMode,   \* Server.TestMode
    now,        \* the wall clock, in seconds
    releases,   \* per project: the names of the directories under releases/
    current,    \* per project: the target of the symlink current ({} absent)
    tmpLink,    \* per project: the target of current.tmp ({} absent)
    mu,         \* LockManager.mu: the task holding it
    lockMap,    \* LockManager.locks: the names that have a mutex
    locked,     \* per project: its sync.Mutex is locked
    fatal,      \* the runtime stopped the server (unlock of unlocked mutex)
    req,        \* per request: the inputs
    steps,      \* per request: the handler steps executed before the lock
    hpc,        \* per request: position of the handler task
    resp,       \* per request: the HTTP response written
    gpc,        \* per request: position of the deployment goroutine
    rel,        \* per request: releaseDir of Execute ({} before CreateRelease)
    idx,        \* per request: index of the next post command
    victims,    \* per request: releases CleanupOldReleases has still to remove
    res,        \* per request: what Execute returned
    deployWg,   \* Server.deployWg
    history,    \* the rows of the deployments table, in id order
    rpc,        \* position of the restore command
    rcur,       \* restore: currentReleaseName
    rprev,      \* restore: previousReleaseName
    rres,       \* restore: what the last run returned
    pre,        \* per request: target of current when its TryLock succeeded
    lockSeen,   \* per request: the state of the mutex its TryLock found
    insert,     \* per request: how its insert into the history ended
    unlocks,    \* per request: calls of Mutex.Unlock by its goroutine
    ctxDone,    \* per request: the context given to Execute is done
    trace,      \* per request: the Executor calls of Execute, with their outcome
    spc,        \* position of Server.Shutdown
    rlClock,    \* the time of the rate limiters, in ticks of TickSeconds
    bucket,     \* per limiter: the tokens of one address's bucket, in 1/TokenScale
    admitted,   \* per limiter: requests it admitted in its first period
    rlLast,     \* the route of the last request served and what refused it
    loaded,     \* the project configuration LoadConfig was last given, and its verdict
    exposeOutput, \* Server.ExposeOutput
    maps,       \* the content of every map[string]bool of allowed commands
    AllowedCommands \* per SandboxedExecutor: the map its AllowedCommands field refers to

fsVars == <<releases, current, tmpLink>>
lmVars == <<mu, lockMap, locked, fatal>>
hVars == <<req, steps, hpc, resp>>
gVars == <<gpc, rel, idx, victims, res>>
rVars == <<rpc, rcur, rprev, rres>>
auxVars == <<pre, lockSeen, insert, unlocks>>
vars == <<testMode, now, releases, current, tmpLink, mu, lockMap, locked, fatal, req,
          steps, hpc, resp, gpc, rel, idx, victims, res, deployWg, history,
          rpc, rcur, rprev, rres, pre, lockSeen, insert, unlocks,
          ctxDone, trace, spc, rlClock, bucket, admitted, rlLast, loaded, exposeOutput,
          maps, AllowedCommands>>
rlVars == <<rlClock, bucket, admitted, rlLast>>
cfgVars == <<loaded, exposeOutput>>
sbVars == <<maps, AllowedCommands>>

Slots == 1..MaxRequests

NoTask == <<"none", 0>>
HandlerTask(r) == <<"handler", r>>
GoTask(r) == <<"deploy", r>>

NoResponse == [code |-> 0, msg |-> ""]
Response(code, msg) == [code |-> code, msg |-> msg]

NoResult == [code |-> 0, msg |-> "", stage |-> ""]

\* the release names on disk when the server starts: the installer's single
\* release, or DefaultKeepReleases earlier releases
(***************************************************************************)
(* The configuration loader.                                               *)
(***************************************************************************)
\* the fields of one project's configuration that ValidateProjectConfig
\* checks: whether the path passes the checks of the directory layout, the
\* length of the secret, whether the branch starts with "-", the pull timeout
ProjectConfigs ==
    [pathOK : BOOLEAN, secretLen : 0..MaxSecretLen, branchDash : BOOLEAN,
     pullTimeout : {-1, 0, 60}]

\* ValidateProjectConfig: len(config.Secret) < MinSecretLength
SecretTooShort(len) == len < MinSecretLength

\* project.ValidateProjectConfig: the errors it collects (every forbidden
\* placeholder secret is shorter than MinSecretLength)
ValidateProjectConfig(config) ==
    (IF config.pathOK THEN {} ELSE {"path"})
    \cup (IF config.secretLen = 0 THEN {"secret missing"}
          ELSE IF SecretTooShort(config.secretLen) THEN {"secret too short"} ELSE {})
    \cup (IF config.pullTimeout < 0 THEN {"pull_timeout"} ELSE {})
    \cup (IF config.branchDash THEN {"branch"} ELSE {})

NotLoaded == [config |-> "none", accepted |-> FALSE]

\* project.LoadConfig for a file with one project: the project enters the
\* registry iff ValidateProjectConfig returns no error
LoadConfig(config) ==
    /\ loaded' = [config |-> config, accepted |-> ValidateProjectConfig(config) = {}]
    /\ UNCHANGED <<testMode, now, fsVars, lmVars, hVars, gVars, deployWg, history, rVars,
                   auxVars, ctxDone, trace, spc, rlVars, exposeOutput, sbVars>>

(***************************************************************************)
(* security.SandboxedExecutor: the allowed commands.                       *)
(***************************************************************************)
Executors == 1..MaxExecutors

\* command names: two of the default ones, and two that are not
Commands == {"git", "cp", "mycommand", "rm"}

\* the commands the literal of DefaultAllowedCommands holds, among Commands
DefaultCommands == {"git", "cp"}

\* what the AllowedCommands field of an executor is: the executor does not
\* exist yet, a nil map, the map of the package variable
\* DefaultAllowedCommands, or the map that was made for the executor
NoExecutor == <<"none", 0>>
NilMap == <<"nil", 0>>
DefaultMap == <<"default", 0>>
OwnMap(e) == <<"own", e>>
MapRefs == {DefaultMap} \cup { OwnMap(e) : e \in Executors }

\* SandboxedExecutor.IsCommandAllowed: e.AllowedCommands[cmd]
IsCommandAllowed(e, cmd) ==
    AllowedCommands[e] \in MapRefs /\ cmd \in maps[AllowedCommands[e]]

\* a constructor that gives the executor a copy of the default map
NewSandboxedExecutorCopy(e) ==
    /\ AllowedCommands[e] = NoExecutor
    /\ IF e = 1 THEN TRUE ELSE AllowedCommands[e - 1] # NoExecutor
    /\ AllowedCommands' = [AllowedCommands EXCEPT ![e] = OwnMap(e)]
    /\ maps' = [maps EXCEPT ![OwnMap(e)] = maps[DefaultMap]]
    /\ UNCHANGED <<testMode, cfgVars, now, fsVars, lmVars, hVars, gVars, deployWg, history,
                   rVars, auxVars, ctxDone, trace, spc, rlVars>>

\* NewSandboxedExecutor: the field is assigned the package variable
\* DefaultAllowedCommands, a map, which is a reference
NewSandboxedExecutor(e) ==
    /\ AllowedCommands[e] = NoExecutor
    /\ IF e = 1 THEN TRUE ELSE AllowedCommands[e - 1] # NoExecutor
    /\ AllowedCommands' = [AllowedCommands EXCEPT ![e] = DefaultMap]
    /\ maps' = maps
    /\ UNCHANGED <<testMode, cfgVars, now, fsVars, lmVars, hVars, gVars, deployWg, history,
                   rVars, auxVars, ctxDone, trace, spc, rlVars>>

\* SandboxedExecutor.AddAllowedCommand
AddAllowedCommand(e, cmd) ==
    /\ AllowedCommands[e] # NoExecutor
    /\ IF AllowedCommands[e] = NilMap
          THEN /\ AllowedCommands' = [AllowedCommands EXCEPT ![e] = OwnMap(e)]
               /\ maps' = [maps EXCEPT ![OwnMap(e)] = {cmd}]
          ELSE /\ AllowedCommands' = AllowedCommands
               /\ maps' = [maps EXCEPT ![AllowedCommands[e]] = @ \cup {cmd}]
    /\ UNCHANGED <<testMode, cfgVars, now, fsVars, lmVars, hVars, gVars, deployWg, history,
                   rVars, auxVars, ctxDone, trace, spc, rlVars>>

\* SandboxedExecutor.RemoveAllowedCommand: delete on a nil map does nothing
RemoveAllowedCommand(e, cmd) ==
    /\ AllowedCommands[e] # NoExecutor
    /\ maps' = IF AllowedCommands[e] = NilMap THEN maps
               ELSE [maps EXCEPT ![AllowedCommands[e]] = @ \ {cmd}]
    /\ AllowedCommands' = AllowedCommands
    /\ UNCHANGED <<testMode, cfgVars, now, fsVars, lmVars, hVars, gVars, deployWg, history,
                   rVars, auxVars, ctxDone, trace, spc, rlVars>>

(***************************************************************************)
(* The rate limiting middlewares, for the requests of one address.        *)
(***************************************************************************)
Limiters == {"global", "webhook"}
Routes == {"health", "status", "webhook"}

LimitOf(l) == IF l = "global" THEN GlobalRateLimit ELSE WebhookRateLimit
PeriodSeconds(l) == IF l = "global" THEN HourSeconds ELSE MinuteSeconds

\* rate.NewLimiter(limit / period, limit): the bucket holds at most limit
\* tokens and starts full; it gains limit / period tokens per second
BurstOf(l) == LimitOf(l) * TokenScale
RefillPerTick(l) == (LimitOf(l) * TickSeconds * TokenScale) \div PeriodSeconds(l)

\* rate.Limiter.Allow: is there a whole token, and the bucket after taking it
Allow(tokens) == tokens >= TokenScale
Take(tokens) == tokens - TokenScale

\* a router that puts the webhook limiter in front of every route
WebhookLimitedAll(route) == TRUE

\* Server.Router: the webhook limiter is in front of POST /in/{projectName} only
WebhookLimited(route) == route = "webhook"

NoServed == [route |-> "none", by |-> "none"]
Served(route, by) == [route |-> route, by |-> by]

\* limiter l admitted a request at the present tick: count it if the tick
\* lies in the first period of l
Count(l) ==
    IF rlClock * TickSeconds < PeriodSeconds(l) THEN admitted[l] + 1 ELSE admitted[l]

\* one request of the address for a route, through the middlewares in front
\* of it, up to the call of the route's handler
Serve(route) ==
    /\ IF testMode
          THEN /\ rlLast' = Served(route, "none")
               /\ UNCHANGED <<bucket, admitted>>
       ELSE IF ~Allow(bucket["global"])
          THEN /\ rlLast' = Served(route, "global")
               /\ UNCHANGED <<bucket, admitted>>
       ELSE IF WebhookLimited(route) /\ ~Allow(bucket["webhook"])
          THEN /\ rlLast' = Served(route, "webhook")
               /\ bucket' = [bucket EXCEPT !["global"] = Take(@)]
               /\ admitted' = [admitted EXCEPT !["global"] = Count("global")]
       ELSE /\ rlLast' = Served(route, "none")
            /\ bucket' = [l \in Limiters |->
                             IF l = "global" \/ WebhookLimited(route)
                                THEN Take(bucket[l]) ELSE bucket[l]]
            /\ admitted' = [l \in Limiters |->
                               IF l = "global" \/ WebhookLimited(route)
                                  THEN Count(l) ELSE admitted[l]]
    /\ UNCHANGED <<testMode, cfgVars, sbVars, now, fsVars, lmVars, hVars, gVars, deployWg, history, rVars,
                   auxVars, ctxDone, trace, spc, rlClock>>

\* time passes: every bucket gains its tokens, up to its burst
RateTick ==
    /\ rlClock < MaxRateTicks
    /\ rlClock' = rlClock + 1
    /\ bucket' = [l \in Limiters |->
                     IF bucket[l] + RefillPerTick(l) > BurstOf(l)
                        THEN BurstOf(l) ELSE bucket[l] + RefillPerTick(l)]
    /\ UNCHANGED <<testMode, cfgVars, sbVars, now, fsVars, lmVars, hVars, gVars, deployWg, history, rVars,
                   auxVars, ctxDone, trace, spc, admitted, rlLast>>

InitialReleases ==
    { {DefaultKeepReleases - 1}, 0..(DefaultKeepReleases - 1) }

Newest(S) == CHOOSE x \in S : \A y \in S : y <= x

\* the server after construction, whatever DEPLOBOX_EXPOSE_OUTPUT is
InitServer ==
    /\ testMode \in BOOLEAN
    /\ now = DefaultKeepReleases - 1
    /\ \E S \in InitialReleases :
          /\ releases = [p \in Projects |-> S]
          /\ current = [p \in Projects |-> {Newest(S)}]
    /\ tmpLink = [p \in Projects |-> {}]
    /\ mu = NoTask
    /\ lockMap = {}
    /\ locked = [p \in Projects |-> FALSE]
    /\ fatal = FALSE
    /\ req = [r \in Slots |-> NoRequest]
    /\ steps = [r \in Slots |-> << >>]
    /\ hpc = [r \in Slots |-> "idle"]
    /\ resp = [r \in Slots |-> NoResponse]
    /\ gpc = [r \in Slots |-> "none"]
    /\ rel = [r \in Slots |-> {}]
    /\ idx = [r \in Slots |-> 0]
    /\ victims = [r \in Slots |-> << >>]
    /\ res = [r \in Slots |-> NoResult]
    /\ deployWg = 0
    /\ history = << >>
    /\ rpc = "idle"
    /\ rcur = {}
    /\ rprev = {}
    /\ rres = "none"
    /\ pre = [r \in Slots |-> {}]
    /\ lockSeen = [r \in Slots |-> "none"]
    /\ insert = [r \in Slots |-> "none"]
    /\ ctxDone = [r \in Slots |-> FALSE]
    /\ trace = [r \in Slots |-> << >>]
    /\ spc = "none"
    /\ rlClock = 0
    /\ bucket = [l \in Limiters |-> BurstOf(l)]
    /\ admitted = [l \in Limiters |-> 0]
    /\ rlLast = NoServed
    /\ loaded = NotLoaded
    /\ unlocks = [r \in Slots |-> 0]
    /\ maps = [m \in MapRefs |-> IF m = DefaultMap THEN DefaultCommands ELSE {}]
    /\ AllowedCommands = [e \in Executors |-> NoExecutor]

\* DEPLOBOX_EXPOSE_OUTPUT is not set
Init == InitServer /\ exposeOutput = FALSE

\* DEPLOBOX_EXPOSE_OUTPUT is set to a truthy value, or not
InitExpose == InitServer /\ exposeOutput \in BOOLEAN

(***************************************************************************)
(* History store.                                                          *)
(***************************************************************************)
\* History.RecordDeployment: the insert; ids are AUTOINCREMENT. by is the
\* request the row was written for.
\* History.Close has been called (there is no History in test mode)
HistoryClosed == ~testMode /\ spc = "done"

RecordDeployment(h, project, status, hasError, by) ==
    Append(h, [id |-> Len(h) + 1, project |-> project, status |-> status,
               started_at |-> now, hasError |-> hasError, by |-> by])

\* the ids of the rows of a project
RowsFor(h, project) == { i \in DOMAIN h : h[i].project = project }

\* History.GetLatestDeployment: ORDER BY id DESC LIMIT 1 ({} when the project
\* has no row)
GetLatestDeployment(h, project) ==
    IF RowsFor(h, project) = {} THEN {}
    ELSE {h[CHOOSE i \in RowsFor(h, project) : \A k \in RowsFor(h, project) : k <= i]}

\* the rows the join of History.GetAllProjectsStatus returns for a project:
\* those whose started_at is the project's MAX(started_at)
JoinedRows(h, project) ==
    { h[i] : i \in { k \in RowsFor(h, project) :
                       \A n \in RowsFor(h, project) : h[n].started_at <= h[k].started_at } }

\* History.GetAllProjectsStatus: the maps the scan of the joined rows can
\* build; the query has no ORDER BY, and for a project with several joined
\* rows the row scanned last stays in the map
GetAllProjectsStatus(h) ==
    LET ps == { p \in Projects : RowsFor(h, p) # {} }
    IN { m \in [ps -> { h[i] : i \in DOMAIN h }] : \A p \in ps : m[p] \in JoinedRows(h, p) }

(***************************************************************************)
(* Lock manager.                                                           *)
(***************************************************************************)
\* a lock manager with one mutex for all the projects
LockOfShared(projectName) == "app"

\* lm.locks[projectName]: every project name has a mutex of its own
LockOf(projectName) == projectName

MutexTryLockAlways(held) == TRUE

\* sync.Mutex.TryLock: succeeds iff the mutex is not held
MutexTryLock(held) == ~held

AfterGateNoReturn(code) == "lock_mu"

\* HandleWebhook returns after each response it writes before the lock
AfterGate(code) == IF code # 0 THEN "done" ELSE "lock_mu"

(***************************************************************************)
(* Server.HandleWebhook.                                                   *)
(***************************************************************************)
\* the handler from its entry to the lock: every check before TryLock only
\* reads the request and the immutable registry
Receive(r, in) ==
    /\ ~fatal
    /\ hpc[r] = "idle"
    /\ IF r = 1 THEN TRUE ELSE hpc[r - 1] # "idle"
    /\ req' = [req EXCEPT ![r] = in]
    /\ steps' = [steps EXCEPT ![r] = Gate(in).steps]
    /\ resp' = IF Gate(in).code # 0
                  THEN [resp EXCEPT ![r] = Response(Gate(in).code, Gate(in).msg)]
                  ELSE resp
    /\ hpc' = [hpc EXCEPT ![r] = AfterGate(Gate(in).code)]
    /\ UNCHANGED <<testMode, cfgVars, sbVars, rlVars, now, fsVars, lmVars, gVars, deployWg, history, rVars, auxVars,
                   ctxDone, trace, spc>>

\* the same for the second HandleWebhook of the repository
ReceiveLogged(r, in) ==
    /\ ~fatal
    /\ hpc[r] = "idle"
    /\ IF r = 1 THEN TRUE ELSE hpc[r - 1] # "idle"
    /\ req' = [req EXCEPT ![r] = in]
    /\ steps' = [steps EXCEPT ![r] = GateLogged(in).steps]
    /\ resp' = IF GateLogged(in).code # 0
                  THEN [resp EXCEPT ![r] = Response(GateLogged(in).code, GateLogged(in).msg)]
                  ELSE resp
    /\ hpc' = [hpc EXCEPT ![r] = AfterGate(GateLogged(in).code)]
    /\ UNCHANGED <<testMode, cfgVars, sbVars, rlVars, now, fsVars, lmVars, gVars, deployWg, history, rVars, auxVars,
                   ctxDone, trace, spc>>

\* LockManager.TryLock: lm.mu.Lock()
TryLockMu(r) ==
    /\ ~fatal
    /\ hpc[r] = "lock_mu"
    /\ mu = NoTask
    /\ mu' = HandlerTask(r)
    /\ hpc' = [hpc EXCEPT ![r] = "lock_map"]
    /\ UNCHANGED <<testMode, cfgVars, sbVars, rlVars, now, fsVars, lockMap, locked, fatal, req, steps, resp, gVars,
                   deployWg, history, rVars, auxVars,
                   ctxDone, trace, spc>>

\* a TryLock that goes on to the project mutex without lm.mu.Unlock()
TryLockMapKeepsMu(r) ==
    /\ ~fatal
    /\ hpc[r] = "lock_map"
    /\ mu = HandlerTask(r)
    /\ lockMap' = lockMap \cup {req[r].name}
    /\ mu' = mu
    /\ hpc' = [hpc EXCEPT ![r] = "lock_try"]
    /\ UNCHANGED <<testMode, cfgVars, sbVars, rlVars, now, fsVars, locked, fatal, req, steps, resp, gVars,
                   deployWg, history, rVars, auxVars,
                   ctxDone, trace, spc>>

\* LockManager.TryLock: look the mutex up, create it on first use, lm.mu.Unlock()
TryLockMap(r) ==
    /\ ~fatal
    /\ hpc[r] = "lock_map"
    /\ mu = HandlerTask(r)
    /\ lockMap' = lockMap \cup {req[r].name}
    /\ mu' = NoTask
    /\ hpc' = [hpc EXCEPT ![r] = "lock_try"]
    /\ UNCHANGED <<testMode, cfgVars, sbVars, rlVars, now, fsVars, locked, fatal, req, steps, resp, gVars,
                   deployWg, history, rVars, auxVars,
                   ctxDone, trace, spc>>

\* LockManager.TryLock: lock.TryLock(), and the handler's branch on its result
TryLockTry(r) ==
    /\ ~fatal
    /\ hpc[r] = "lock_try"
    /\ lockSeen' = [lockSeen EXCEPT ![r] = IF locked[LockOf(req[r].name)] THEN "held" ELSE "free"]
    /\ IF MutexTryLock(locked[LockOf(req[r].name)])
          THEN /\ locked' = [locked EXCEPT ![LockOf(req[r].name)] = TRUE]
               /\ hpc' = [hpc EXCEPT ![r] = "accept"]
               /\ pre' = [pre EXCEPT ![r] = current[req[r].name]]
          ELSE /\ locked' = locked
               /\ hpc' = [hpc EXCEPT ![r] = "reject"]
               /\ pre' = pre
    /\ UNCHANGED <<testMode, cfgVars, sbVars, rlVars, now, fsVars, mu, lockMap, fatal, req, steps, resp, gVars,
                   deployWg, history, rVars, insert, unlocks,
                   ctxDone, trace, spc>>

\* a rejection that does not return after its 429: the handler goes on to
\* deployWg.Add(1) and the go statement
RejectNoReturn(r) ==
    /\ ~fatal
    /\ hpc[r] = "reject"
    /\ IF testMode
          THEN UNCHANGED <<history, insert>>
       ELSE IF HistoryClosed
          THEN /\ history' = history
               /\ insert' = [insert EXCEPT ![r] = "closed"]
          ELSE \E writeOK \in BOOLEAN :
                  /\ history' = IF writeOK
                                    THEN RecordDeployment(history, req[r].name, "rejected", TRUE, r)
                                    ELSE history
                  /\ insert' = [insert EXCEPT ![r] = IF writeOK THEN "ok" ELSE "failed"]
    /\ resp' = [resp EXCEPT ![r] = Response(StatusTooManyRequests, "Deployment already in progress")]
    /\ hpc' = [hpc EXCEPT ![r] = "spawn"]
    /\ UNCHANGED <<testMode, cfgVars, sbVars, rlVars, now, fsVars, lmVars, req, steps, gVars, deployWg, rVars,
                   pre, lockSeen, unlocks,
                   ctxDone, trace, spc>>

\* TryLock failed: record the rejection (unless in test mode; the insert may
\* fail, which is only logged) and answer 429
Reject(r) ==
    /\ ~fatal
    /\ hpc[r] = "reject"
    /\ IF testMode
          THEN UNCHANGED <<history, insert>>
       ELSE IF HistoryClosed
          THEN /\ history' = history
               /\ insert' = [insert EXCEPT ![r] = "closed"]
          ELSE \E writeOK \in BOOLEAN :
                  /\ history' = IF writeOK
                                    THEN RecordDeployment(history, req[r].name, "rejected", TRUE, r)
                                    ELSE history
                  /\ insert' = [insert EXCEPT ![r] = IF writeOK THEN "ok" ELSE "failed"]
    /\ resp' = [resp EXCEPT ![r] = Response(StatusTooManyRequests, "Deployment already in progress")]
    /\ hpc' = [hpc EXCEPT ![r] = "done"]
    /\ UNCHANGED <<testMode, cfgVars, sbVars, rlVars, now, fsVars, lmVars, req, steps, gVars, deployWg, rVars,
                   pre, lockSeen, unlocks,
                   ctxDone, trace, spc>>

\* a handler that starts the goroutine without having written its 202
AcceptNoResponse(r) ==
    /\ ~fatal
    /\ hpc[r] = "accept"
    /\ resp' = resp
    /\ hpc' = [hpc EXCEPT ![r] = "spawn"]
    /\ UNCHANGED <<testMode, cfgVars, sbVars, rlVars, now, fsVars, lmVars, req, steps, gVars, deployWg, history, rVars, auxVars,
                   ctxDone, trace, spc>>

\* TryLock succeeded: answer 202
Accept(r) ==
    /\ ~fatal
    /\ hpc[r] = "accept"
    /\ resp' = [resp EXCEPT ![r] = Response(StatusAccepted, "Deployment accepted")]
    /\ hpc' = [hpc EXCEPT ![r] = "spawn"]
    /\ UNCHANGED <<testMode, cfgVars, sbVars, rlVars, now, fsVars, lmVars, req, steps, gVars, deployWg, history, rVars, auxVars,
                   ctxDone, trace, spc>>

\* deployWg.Add(1) and the go statement; the handler returns
Spawn(r) ==
    /\ ~fatal
    /\ hpc[r] = "spawn"
    /\ deployWg' = deployWg + 1
    /\ gpc' = [gpc EXCEPT ![r] = "create"]
    /\ hpc' = [hpc EXCEPT ![r] = "done"]
    /\ UNCHANGED <<testMode, cfgVars, sbVars, rlVars, now, fsVars, lmVars, req, steps, resp, rel, idx, victims, res,
                   history, rVars, auxVars,
                   ctxDone, trace, spc>>

(***************************************************************************)
(* Deployment.Execute and Server.executeDeployment, in the goroutine.      *)
(***************************************************************************)
\* Server.respondJSON: the keys of the JSON object the handler writes as
\* the body of its response
BodyKeys(response) ==
    IF response.code = StatusAccepted THEN {"message", "project"}
    ELSE IF response.code = StatusOK THEN {"message"}
    ELSE {"error"}

\* Deployment.errorResponse and Deployment.successResponse: the keys of the
\* map Execute returns
ResponseKeys(result) ==
    (IF result.code = StatusOK THEN {"message"} ELSE {"error"})
       \cup (IF exposeOutput THEN {"output"} ELSE {})

Result(code, msg, stage) == [code |-> code, msg |-> msg, stage |-> stage]

Success == Result(StatusOK, "Deployment successful", "")

\* Execute returns an error response from the named stage
Fail(r, code, msg, stage) ==
    /\ res' = [res EXCEPT ![r] = Result(code, msg, stage)]
    /\ gpc' = [gpc EXCEPT ![r] = "record"]

\* Execute returns
Return(r, result) ==
    /\ res' = [res EXCEPT ![r] = result]
    /\ gpc' = [gpc EXCEPT ![r] = "record"]

AfterShared == IF NumPostDeploy > 0 THEN "postdeploy" ELSE "cut_rm"
AfterCutover == IF NumPostActivate > 0 THEN "postactivate" ELSE "retain_read"

\* fileutil.SymlinkExists(link) and fileutil.ResolveSymlink(link) both succeed
Resolves(link, dirs) == link # {} /\ link \subseteq dirs

\* what cmdutil.Run returns: whether it returns an error, and the exit code
\* (an exit code other than 0 comes with an error; an error without an exit
\* code is a command that was not started or was killed)
CommandResults ==
    { [err |-> FALSE, rc |-> 0], [err |-> TRUE, rc |-> 1], [err |-> TRUE, rc |-> 0] }

\* Executor.RunCommand under a context: exec.CommandContext does not start a
\* command whose context is done
RunCommand(done) ==
    IF done THEN { c \in CommandResults : c.err /\ c.rc = 0 } ELSE CommandResults

\* ExecutionResult.OK
OK(result) == result.rc = 0

CommandFailedNever(result) == FALSE

\* the test after each command: err != nil || !result.OK()
CommandFailed(result) == result.err \/ ~OK(result)

\* one call of the Executor by Execute, and whether it failed
Call(stage, failed) == [stage |-> stage, failed |-> failed]

Traced(r, stage, failed) ==
    trace' = [trace EXCEPT ![r] = Append(@, Call(stage, failed))]

\* Execute from its entry to the end of step 1: the check of the context,
\* ShouldDeploy, then Executor.CreateRelease (cp -a of current's target into
\* releases/<now>)
ExecuteCreate(r) ==
    LET p == req[r].name IN
    /\ ~fatal
    /\ gpc[r] = "create"
    /\ IF ctxDone[r]
          THEN /\ Fail(r, StatusRequestTimeout, "Deployment cancelled before start", "cancel")
               /\ UNCHANGED <<releases, rel, trace>>
       ELSE IF ~ShouldDeploy(Registry[p], JSONUnmarshal(req[r].body))
          THEN /\ Return(r, Result(StatusOK, "Not target branch, skipping", ""))
               /\ UNCHANGED <<releases, rel, trace>>
       ELSE IF ~Resolves(current[p], releases[p]) \/ current[p] = {now}
          \* no current release, or cp of a directory into itself
          THEN /\ Fail(r, StatusInternalServerError, "Failed to clone repository", "create")
               /\ Traced(r, "create", TRUE)
               /\ UNCHANGED <<releases, rel>>
       ELSE \E result \in CommandResults, made \in BOOLEAN :
               /\ (~result.err /\ result.rc = 0) => made
               /\ releases' = IF made THEN [releases EXCEPT ![p] = @ \cup {now}]
                              ELSE releases
               /\ Traced(r, "create", result.err \/ result.rc # 0)
               /\ IF CommandFailed(result)
                     THEN /\ rel' = rel
                          /\ Fail(r, StatusInternalServerError, "Failed to clone repository", "create")
                     ELSE /\ rel' = [rel EXCEPT ![r] = {now}]
                          /\ gpc' = [gpc EXCEPT ![r] = "shared"]
                          /\ res' = res
    /\ UNCHANGED <<testMode, cfgVars, sbVars, rlVars, now, current, tmpLink, lmVars, hVars, idx, victims,
                   deployWg, history, rVars, auxVars, ctxDone, spc>>

\* the check of the context after step 1, then step 2:
\* Executor.CopySharedFiles
ExecuteShared(r) ==
    /\ ~fatal
    /\ gpc[r] = "shared"
    /\ IF ctxDone[r]
          THEN /\ Fail(r, StatusRequestTimeout, "Deployment cancelled during git clone", "cancel")
               /\ UNCHANGED <<idx, trace>>
          ELSE \E result \in CommandResults :
                  /\ Traced(r, "shared", result.err \/ result.rc # 0)
                  /\ IF CommandFailed(result)
                        THEN /\ Fail(r, StatusInternalServerError, "Failed to copy shared files", "shared")
                             /\ idx' = idx
                        ELSE /\ gpc' = [gpc EXCEPT ![r] = AfterShared]
                             /\ idx' = [idx EXCEPT ![r] = 1]
                             /\ res' = res
    /\ UNCHANGED <<testMode, cfgVars, sbVars, rlVars, now, fsVars, lmVars, hVars, rel, victims,
                   deployWg, history, rVars, auxVars, ctxDone, spc>>

\* step 3: one command of Executor.RunPostDeployCommands
ExecutePostDeploy(r) ==
    /\ ~fatal
    /\ gpc[r] = "postdeploy"
    /\ \E result \in RunCommand(ctxDone[r]) :
          /\ Traced(r, "postdeploy", result.err \/ result.rc # 0)
          /\ IF CommandFailed(result)
                THEN /\ Fail(r, StatusInternalServerError, "Post-deploy command failed", "postdeploy")
                     /\ idx' = idx
                ELSE /\ gpc' = [gpc EXCEPT ![r] =
                                  IF idx[r] >= NumPostDeploy THEN "cut_rm" ELSE "postdeploy"]
                     /\ idx' = [idx EXCEPT ![r] = IF idx[r] >= NumPostDeploy THEN 1 ELSE @ + 1]
                     /\ res' = res
    /\ UNCHANGED <<testMode, cfgVars, sbVars, rlVars, now, fsVars, lmVars, hVars, rel, victims,
                   deployWg, history, rVars, auxVars, ctxDone, spc>>

\* step 4, Executor.UpdateCurrentSymlink: the release directory must resolve;
\* then UpdateSymlinkAtomic removes a stale current.tmp
ExecuteCutRemove(r) ==
    LET p == req[r].name IN
    /\ ~fatal
    /\ gpc[r] = "cut_rm"
    /\ IF rel[r] \subseteq releases[p]
          THEN /\ tmpLink' = [tmpLink EXCEPT ![p] = {}]
               /\ gpc' = [gpc EXCEPT ![r] = "cut_link"]
               /\ UNCHANGED <<res, trace>>
          ELSE /\ tmpLink' = tmpLink
               /\ Traced(r, "cutover", TRUE)
               /\ Fail(r, StatusInternalServerError, "Failed to update current symlink", "cutover")
    /\ UNCHANGED <<testMode, cfgVars, sbVars, rlVars, now, releases, current, lmVars, hVars, rel, idx, victims,
                   deployWg, history, rVars, auxVars, ctxDone, spc>>

\* UpdateSymlinkAtomic: os.Symlink(target, current.tmp); fails when
\* current.tmp exists, or for a reason of the file system
ExecuteCutLink(r) ==
    LET p == req[r].name IN
    /\ ~fatal
    /\ gpc[r] = "cut_link"
    /\ \E ok \in BOOLEAN :
          IF ok /\ tmpLink[p] = {}
             THEN /\ tmpLink' = [tmpLink EXCEPT ![p] = rel[r]]
                  /\ gpc' = [gpc EXCEPT ![r] = "cut_rename"]
                  /\ UNCHANGED <<res, trace>>
             ELSE /\ tmpLink' = tmpLink
                  /\ Traced(r, "cutover", TRUE)
                  /\ Fail(r, StatusInternalServerError, "Failed to update current symlink", "cutover")
    /\ UNCHANGED <<testMode, cfgVars, sbVars, rlVars, now, releases, current, lmVars, hVars, rel, idx, victims,
                   deployWg, history, rVars, auxVars, ctxDone, spc>>

\* UpdateSymlinkAtomic: os.Rename(current.tmp, current); fails when
\* current.tmp is gone, or for a reason of the file system
ExecuteCutRename(r) ==
    LET p == req[r].name IN
    /\ ~fatal
    /\ gpc[r] = "cut_rename"
    /\ \E ok \in BOOLEAN :
          IF ok /\ tmpLink[p] # {}
             THEN /\ current' = [current EXCEPT ![p] = tmpLink[p]]
                  /\ tmpLink' = [tmpLink EXCEPT ![p] = {}]
                  /\ gpc' = [gpc EXCEPT ![r] = AfterCutover]
                  /\ Traced(r, "cutover", FALSE)
             ELSE /\ UNCHANGED <<current, tmpLink, trace>>
                  /\ gpc' = [gpc EXCEPT ![r] = "cut_cleanup"]
    /\ UNCHANGED <<testMode, cfgVars, sbVars, rlVars, now, releases, lmVars, hVars, rel, idx, victims, res,
                   deployWg, history, rVars, auxVars, ctxDone, spc>>

\* UpdateSymlinkAtomic: the rename failed, remove current.tmp and return
ExecuteCutCleanup(r) ==
    LET p == req[r].name IN
    /\ ~fatal
    /\ gpc[r] = "cut_cleanup"
    /\ tmpLink' = [tmpLink EXCEPT ![p] = {}]
    /\ Traced(r, "cutover", TRUE)
    /\ Fail(r, StatusInternalServerError, "Failed to update current symlink", "cutover")
    /\ UNCHANGED <<testMode, cfgVars, sbVars, rlVars, now, releases, current, lmVars, hVars, rel, idx, victims,
                   deployWg, history, rVars, auxVars, ctxDone, spc>>

\* step 5: one command of Executor.RunPostActivateCommands, run in the
\* directory current resolves to
ExecutePostActivate(r) ==
    LET p == req[r].name IN
    /\ ~fatal
    /\ gpc[r] = "postactivate"
    /\ \E result \in RunCommand(ctxDone[r] \/ ~Resolves(current[p], releases[p])) :
          /\ Traced(r, "postactivate", result.err \/ result.rc # 0)
          /\ IF CommandFailed(result)
                THEN /\ Fail(r, StatusInternalServerError, "Post-activate command failed", "postactivate")
                     /\ idx' = idx
                ELSE /\ gpc' = [gpc EXCEPT ![r] =
                                  IF idx[r] >= NumPostActivate THEN "retain_read" ELSE "postactivate"]
                     /\ idx' = [idx EXCEPT ![r] = IF idx[r] >= NumPostActivate THEN 1 ELSE @ + 1]
                     /\ res' = res
    /\ UNCHANGED <<testMode, cfgVars, sbVars, rlVars, now, fsVars, lmVars, hVars, rel, victims,
                   deployWg, history, rVars, auxVars, ctxDone, spc>>

\* the release names newest first: names are timestamps, so the descending
\* order of names that the exchange sort of the code produces
RECURSIVE SortDesc(_)
SortDesc(S) ==
    IF S = {} THEN << >>
    ELSE <<Newest(S)>> \o SortDesc(S \ {Newest(S)})

\* Executor.CleanupOldReleases: the releases it goes on to remove, in order
CleanupVictims(dirs, keepCount) ==
    IF Cardinality(dirs) <= keepCount THEN << >>
    ELSE SubSeq(SortDesc(dirs), keepCount + 1, Cardinality(dirs))

\* step 6, Executor.CleanupOldReleases: os.ReadDir and the choice of the
\* releases to remove; a failure is only a warning
ExecuteCleanupRead(r) ==
    LET p == req[r].name IN
    /\ ~fatal
    /\ gpc[r] = "retain_read"
    /\ \E ok \in BOOLEAN :
          /\ Traced(r, "retain", ~ok)
          /\ IF ok /\ CleanupVictims(releases[p], DefaultKeepReleases) # << >>
                THEN /\ victims' = [victims EXCEPT ![r] = CleanupVictims(releases[p], DefaultKeepReleases)]
                     /\ gpc' = [gpc EXCEPT ![r] = "retain_rm"]
                     /\ res' = res
                ELSE /\ victims' = victims
                     /\ Return(r, Success)
    /\ UNCHANGED <<testMode, cfgVars, sbVars, rlVars, now, fsVars, lmVars, hVars, rel, idx,
                   deployWg, history, rVars, auxVars, ctxDone, spc>>

\* CleanupOldReleases: os.RemoveAll of the next release to remove; a release
\* that no longer resolves is skipped, a failed removal is only a warning
ExecuteCleanupRemove(r) ==
    LET p == req[r].name
        v == Head(victims[r])
    IN
    /\ ~fatal
    /\ gpc[r] = "retain_rm"
    /\ \E ok \in BOOLEAN :
          releases' = IF ok THEN [releases EXCEPT ![p] = @ \ {v}] ELSE releases
    /\ victims' = [victims EXCEPT ![r] = Tail(@)]
    /\ IF Len(victims[r]) = 1
          THEN Return(r, Success)
          ELSE UNCHANGED <<gpc, res>>
    /\ UNCHANGED <<testMode, cfgVars, sbVars, rlVars, now, current, tmpLink, lmVars, hVars, rel, idx,
                   deployWg, history, rVars, auxVars,
                   ctxDone, trace, spc>>

StatusOfAlwaysSuccess(result) == "success"

StatusOfInProgress(result) == "in_progress"

\* Server.executeDeployment: the status recorded for what Execute returned
StatusOf(result) ==
    IF result.code = StatusOK
       THEN IF result.msg = "Deployment successful" THEN "success" ELSE "skipped"
       ELSE "failed"

\* an executeDeployment that returns without calling RecordDeployment
ExecuteRecordOmitted(r) ==
    /\ ~fatal
    /\ gpc[r] = "record"
    /\ gpc' = [gpc EXCEPT ![r] = "unlock_mu"]
    /\ UNCHANGED <<testMode, cfgVars, sbVars, rlVars, now, fsVars, lmVars, hVars, rel, idx, victims, res,
                   deployWg, history, rVars, auxVars,
                   ctxDone, trace, spc>>

\* Server.executeDeployment after Execute: record the outcome (unless in test
\* mode; a failed insert is only logged)
ExecuteRecord(r) ==
    /\ ~fatal
    /\ gpc[r] = "record"
    /\ IF testMode
          THEN UNCHANGED <<history, insert>>
       ELSE IF HistoryClosed
          THEN /\ history' = history
               /\ insert' = [insert EXCEPT ![r] = "closed"]
          ELSE \E writeOK \in BOOLEAN :
                  /\ history' = IF writeOK
                                    THEN RecordDeployment(history, req[r].name, StatusOf(res[r]),
                                                          StatusOf(res[r]) = "failed", r)
                                    ELSE history
                  /\ insert' = [insert EXCEPT ![r] = IF writeOK THEN "ok" ELSE "failed"]
    /\ gpc' = [gpc EXCEPT ![r] = "unlock_mu"]
    /\ UNCHANGED <<testMode, cfgVars, sbVars, rlVars, now, fsVars, lmVars, hVars, rel, idx, victims, res,
                   deployWg, rVars, pre, lockSeen, unlocks,
                   ctxDone, trace, spc>>

\* deferred LockManager.Unlock: lm.mu.Lock()
UnlockMu(r) ==
    /\ ~fatal
    /\ gpc[r] = "unlock_mu"
    /\ mu = NoTask
    /\ mu' = GoTask(r)
    /\ gpc' = [gpc EXCEPT ![r] = "unlock_map"]
    /\ UNCHANGED <<testMode, cfgVars, sbVars, rlVars, now, fsVars, lockMap, locked, fatal, hVars, rel, idx, victims, res,
                   deployWg, history, rVars, auxVars,
                   ctxDone, trace, spc>>

\* LockManager.Unlock: look the mutex up, lm.mu.Unlock()
UnlockMap(r) ==
    /\ ~fatal
    /\ gpc[r] = "unlock_map"
    /\ mu = GoTask(r)
    /\ mu' = NoTask
    /\ gpc' = [gpc EXCEPT ![r] = IF req[r].name \in lockMap THEN "unlock_mutex" ELSE "wg_done"]
    /\ UNCHANGED <<testMode, cfgVars, sbVars, rlVars, now, fsVars, lockMap, locked, fatal, hVars, rel, idx, victims, res,
                   deployWg, history, rVars, auxVars,
                   ctxDone, trace, spc>>

MutexUnlockNoRelease(held) == held

\* sync.Mutex.Unlock: the state of the mutex afterwards
MutexUnlock(held) == FALSE

\* LockManager.Unlock: lock.Unlock(); unlocking an unlocked mutex is a fatal
\* runtime error
UnlockMutex(r) ==
    /\ ~fatal
    /\ gpc[r] = "unlock_mutex"
    /\ locked' = [locked EXCEPT ![LockOf(req[r].name)] = MutexUnlock(@)]
    /\ fatal' = ~locked[LockOf(req[r].name)]
    /\ unlocks' = [unlocks EXCEPT ![r] = @ + 1]
    /\ gpc' = [gpc EXCEPT ![r] = "wg_done"]
    /\ UNCHANGED <<testMode, cfgVars, sbVars, rlVars, now, fsVars, mu, lockMap, hVars, rel, idx, victims, res,
                   deployWg, history, rVars, pre, lockSeen, insert,
                   ctxDone, trace, spc>>

\* deferred deployWg.Done(); the goroutine ends
WgDone(r) ==
    /\ ~fatal
    /\ gpc[r] = "wg_done"
    /\ deployWg' = deployWg - 1
    /\ gpc' = [gpc EXCEPT ![r] = "exit"]
    /\ UNCHANGED <<testMode, cfgVars, sbVars, rlVars, now, fsVars, lmVars, hVars, rel, idx, victims, res,
                   history, rVars, auxVars,
                   ctxDone, trace, spc>>

(***************************************************************************)
(* The restore command: runRestore and Executor.RestorePreviousRelease.    *)
(***************************************************************************)
RestoreProject == "app"

\* the restore command ends with an error
RestoreError ==
    /\ rres' = "error"
    /\ rpc' = "idle"
    /\ rcur' = {}
    /\ rprev' = {}

PreviousReleaseNewest(names, cur) == {Newest(names)}

\* RestorePreviousRelease: the release after the current one in the names
\* sorted newest first ({} when the current one is the last)
PreviousRelease(names, cur) ==
    LET s == SortDesc(names)
        i == CHOOSE k \in 1..Len(s) : s[k] = cur
    IN IF i >= Len(s) THEN {} ELSE {s[i + 1]}

\* RestorePreviousRelease: current must be a symlink that resolves
RestoreStart ==
    /\ rpc = "idle"
    /\ IF Resolves(current[RestoreProject], releases[RestoreProject])
          THEN /\ rcur' = current[RestoreProject]
               /\ rprev' = {}
               /\ rpc' = "list"
               /\ rres' = "none"
          ELSE RestoreError
    /\ UNCHANGED <<testMode, cfgVars, sbVars, rlVars, now, fsVars, lmVars, hVars, gVars, deployWg, history,
                   auxVars,
                   ctxDone, trace, spc>>

\* RestorePreviousRelease: os.ReadDir, the sort and the choice of the
\* previous release
RestoreList ==
    LET names == releases[RestoreProject] IN
    /\ rpc = "list"
    /\ \E ok \in BOOLEAN :
          IF /\ ok
             /\ Cardinality(names) >= 2
             /\ rcur \subseteq names
             /\ PreviousRelease(names, Newest(rcur)) # {}
             THEN /\ rprev' = PreviousRelease(names, Newest(rcur))
                  /\ rpc' = "rm"
                  /\ UNCHANGED <<rres, rcur>>
             ELSE RestoreError
    /\ UNCHANGED <<testMode, cfgVars, sbVars, rlVars, now, fsVars, lmVars, hVars, gVars, deployWg, history,
                   auxVars,
                   ctxDone, trace, spc>>

\* UpdateCurrentSymlink of the previous release: it must resolve; then
\* UpdateSymlinkAtomic removes a stale current.tmp
RestoreCutRemove ==
    /\ rpc = "rm"
    /\ IF rprev \subseteq releases[RestoreProject]
          THEN /\ tmpLink' = [tmpLink EXCEPT ![RestoreProject] = {}]
               /\ rpc' = "link"
               /\ UNCHANGED <<rres, rcur, rprev>>
          ELSE /\ tmpLink' = tmpLink
               /\ RestoreError
    /\ UNCHANGED <<testMode, cfgVars, sbVars, rlVars, now, releases, current, lmVars, hVars, gVars, deployWg, history,
                   auxVars,
                   ctxDone, trace, spc>>

\* UpdateSymlinkAtomic: os.Symlink(target, current.tmp)
RestoreCutLink ==
    /\ rpc = "link"
    /\ \E ok \in BOOLEAN :
          IF ok /\ tmpLink[RestoreProject] = {}
             THEN /\ tmpLink' = [tmpLink EXCEPT ![RestoreProject] = rprev]
                  /\ rpc' = "rename"
                  /\ UNCHANGED <<rres, rcur, rprev>>
             ELSE /\ tmpLink' = tmpLink
                  /\ RestoreError
    /\ UNCHANGED <<testMode, cfgVars, sbVars, rlVars, now, releases, current, lmVars, hVars, gVars, deployWg, history,
                   auxVars,
                   ctxDone, trace, spc>>

\* UpdateSymlinkAtomic: os.Rename(current.tmp, current); on success the
\* command returns (currentReleaseName, previousReleaseName)
RestoreCutRename ==
    /\ rpc = "rename"
    /\ \E ok \in BOOLEAN :
          IF ok /\ tmpLink[RestoreProject] # {}
             THEN /\ current' = [current EXCEPT ![RestoreProject] = tmpLink[RestoreProject]]
                  /\ tmpLink' = [tmpLink EXCEPT ![RestoreProject] = {}]
                  /\ rres' = "ok"
                  /\ rpc' = "idle"
                  /\ rcur' = {}
                  /\ rprev' = {}
             ELSE /\ UNCHANGED <<current, tmpLink, rres, rcur, rprev>>
                  /\ rpc' = "cleanup"
    /\ UNCHANGED <<testMode, cfgVars, sbVars, rlVars, now, releases, lmVars, hVars, gVars, deployWg, history,
                   auxVars,
                   ctxDone, trace, spc>>

\* UpdateSymlinkAtomic: the rename failed, remove current.tmp and return
RestoreCutCleanup ==
    /\ rpc = "cleanup"
    /\ tmpLink' = [tmpLink EXCEPT ![RestoreProject] = {}]
    /\ RestoreError
    /\ UNCHANGED <<testMode, cfgVars, sbVars, rlVars, now, releases, current, lmVars, hVars, gVars, deployWg, history,
                   auxVars,
                   ctxDone, trace, spc>>

(***************************************************************************)
(* The clock.                                                              *)
(***************************************************************************)
Tick ==
    /\ now < DefaultKeepReleases - 1 + MaxTicks
    /\ now' = now + 1
    /\ UNCHANGED <<testMode, cfgVars, sbVars, rlVars, fsVars, lmVars, hVars, gVars, deployWg, history, rVars, auxVars,
                   ctxDone, trace, spc>>

(***************************************************************************)
(* Server.Shutdown.                                                        *)
(***************************************************************************)
\* Shutdown: s.deployWg.Wait() returns when the counter is 0
ShutdownWait ==
    /\ ~fatal
    /\ spc = "none"
    /\ deployWg = 0
    /\ spc' = "close"
    /\ UNCHANGED <<testMode, cfgVars, sbVars, rlVars, now, fsVars, lmVars, hVars, gVars, deployWg, history, rVars,
                   auxVars, ctxDone, trace>>

\* Shutdown: s.History.Close() when there is a History
ShutdownClose ==
    /\ ~fatal
    /\ spc = "close"
    /\ spc' = "done"
    /\ UNCHANGED <<testMode, cfgVars, sbVars, rlVars, now, fsVars, lmVars, hVars, gVars, deployWg, history, rVars,
                   auxVars, ctxDone, trace>>

\* the context given to Execute for request r becomes done (the server gives
\* context.Background(), which never does; another caller of the engine may
\* cancel its context at any time)
Cancel(r) ==
    /\ ~fatal
    /\ ~ctxDone[r]
    /\ ctxDone' = [ctxDone EXCEPT ![r] = TRUE]
    /\ UNCHANGED <<testMode, cfgVars, sbVars, rlVars, now, fsVars, lmVars, hVars, gVars, deployWg, history, rVars,
                   auxVars, trace, spc>>

(***************************************************************************)
(* Specifications.                                                         *)
(***************************************************************************)
HandlerStep(r) ==
    \/ TryLockMu(r)
    \/ TryLockMap(r)
    \/ TryLockTry(r)
    \/ Reject(r)
    \/ Accept(r)
    \/ Spawn(r)

DeployStep(r) ==
    \/ ExecuteCreate(r)
    \/ ExecuteShared(r)
    \/ ExecutePostDeploy(r)
    \/ ExecuteCutRemove(r)
    \/ ExecuteCutLink(r)
    \/ ExecuteCutRename(r)
    \/ ExecuteCutCleanup(r)
    \/ ExecutePostActivate(r)
    \/ ExecuteCleanupRead(r)
    \/ ExecuteCleanupRemove(r)
    \/ ExecuteRecord(r)
    \/ UnlockMu(r)
    \/ UnlockMap(r)
    \/ UnlockMutex(r)
    \/ WgDone(r)

RestoreStep ==
    \/ RestoreStart
    \/ RestoreList
    \/ RestoreCutRemove
    \/ RestoreCutLink
    \/ RestoreCutRename
    \/ RestoreCutCleanup

\* the server under concurrent webhooks
Next ==
    \/ \E r \in Slots :
          \/ \E in \in MainRequests : Receive(r, in)
          \/ HandlerStep(r)
          \/ DeployStep(r)
    \/ Tick

Spec == Init /\ [][Next]_vars

\* one webhook, with the restore command and the clock running beside the
\* deployment it starts
InitOps == Init /\ ~testMode

NextOps ==
    \/ \E in \in MainRequests : Receive(1, in)
    \/ TryLockMu(1)
    \/ TryLockMap(1)
    \/ TryLockTry(1)
    \/ Accept(1)
    \/ Spawn(1)
    \/ DeployStep(1)
    \/ RestoreStep
    \/ Tick

SpecOps == InitOps /\ [][NextOps]_vars

\* neither the handler nor the goroutine of request r is running
Quiet(r) == hpc[r] \in {"idle", "done"} /\ gpc[r] \in {"none", "exit"}

\* request r may take a step: no restore and no other request is running
SeqTurn(r) == rpc = "idle" /\ \A q \in Slots \ {r} : Quiet(q)

\* the restore command may take a step: the deployments have ended
SeqRestore == \A q \in Slots : gpc[q] = "exit"

\* pushes to the target branch of one project, one after the other, and
\* then runs of the restore command: a webhook arrives only when the
\* deployment before it has ended, and the operator runs the restore command
\* once the deployments have ended
NextSeq ==
    \/ \E r \in Slots : SeqTurn(r) /\ Receive(r, PushTo(RestoreProject, "b_main", "valid"))
    \/ \E r \in Slots : SeqTurn(r) /\ TryLockMu(r)
    \/ \E r \in Slots : SeqTurn(r) /\ TryLockMap(r)
    \/ \E r \in Slots : SeqTurn(r) /\ TryLockTry(r)
    \/ \E r \in Slots : SeqTurn(r) /\ Accept(r)
    \/ \E r \in Slots : SeqTurn(r) /\ Spawn(r)
    \/ \E r \in Slots : SeqTurn(r) /\ ExecuteCreate(r)
    \/ \E r \in Slots : SeqTurn(r) /\ ExecuteShared(r)
    \/ \E r \in Slots : SeqTurn(r) /\ ExecutePostDeploy(r)
    \/ \E r \in Slots : SeqTurn(r) /\ ExecuteCutRemove(r)
    \/ \E r \in Slots : SeqTurn(r) /\ ExecuteCutLink(r)
    \/ \E r \in Slots : SeqTurn(r) /\ ExecuteCutRename(r)
    \/ \E r \in Slots : SeqTurn(r) /\ ExecuteCutCleanup(r)
    \/ \E r \in Slots : SeqTurn(r) /\ ExecutePostActivate(r)
    \/ \E r \in Slots : SeqTurn(r) /\ ExecuteCleanupRead(r)
    \/ \E r \in Slots : SeqTurn(r) /\ ExecuteCleanupRemove(r)
    \/ \E r \in Slots : SeqTurn(r) /\ ExecuteRecord(r)
    \/ \E r \in Slots : SeqTurn(r) /\ UnlockMu(r)
    \/ \E r \in Slots : SeqTurn(r) /\ UnlockMap(r)
    \/ \E r \in Slots : SeqTurn(r) /\ UnlockMutex(r)
    \/ \E r \in Slots : SeqTurn(r) /\ WgDone(r)
    \/ SeqRestore /\ RestoreStart
    \/ SeqRestore /\ RestoreList
    \/ SeqRestore /\ RestoreCutRemove
    \/ SeqRestore /\ RestoreCutLink
    \/ SeqRestore /\ RestoreCutRename
    \/ SeqRestore /\ RestoreCutCleanup
    \/ Tick

SpecSeq == InitOps /\ [][NextSeq]_vars

\* one webhook drawn from every combination of the request's inputs, and
\* the clock
NextGate ==
    \/ \E in \in AllRequests : Receive(1, in)
    \/ TryLockMu(1)
    \/ TryLockMap(1)
    \/ TryLockTry(1)
    \/ Accept(1)
    \/ Spawn(1)
    \/ DeployStep(1)
    \/ Tick

SpecGate == Init /\ [][NextGate]_vars

\* the server with every handler and every deployment goroutine scheduled:
\* the Go scheduler runs each runnable goroutine, and sync.Mutex hands a
\* free mutex to a waiter
SpecFair ==
    /\ Init
    /\ [][Next]_vars
    /\ \A r \in Slots : WF_vars(HandlerStep(r)) /\ WF_vars(DeployStep(r))

\* the server under concurrent webhooks for its two projects: correctly
\* signed pushes to the target branch of either
ProjectRequests == { PushTo(p, "b_main", "valid") : p \in Projects }

NextProjects ==
    \/ \E r \in Slots :
          \/ \E in \in ProjectRequests : Receive(r, in)
          \/ HandlerStep(r)
          \/ DeployStep(r)
    \/ Tick

SpecProjects == Init /\ [][NextProjects]_vars

\* one webhook drawn from every combination of the request's inputs, handled
\* by the second HandleWebhook of the repository, and the clock
NextGateLogged ==
    \/ \E in \in AllRequests : ReceiveLogged(1, in)
    \/ TryLockMu(1)
    \/ TryLockMap(1)
    \/ TryLockTry(1)
    \/ Accept(1)
    \/ Spawn(1)
    \/ DeployStep(1)
    \/ Tick

SpecGateLogged == Init /\ [][NextGateLogged]_vars

\* concurrent webhooks whose deployments run under contexts that can be
\* cancelled
NextCtx ==
    \/ \E r \in Slots :
          \/ \E in \in MainRequests : Receive(r, in)
          \/ HandlerStep(r)
          \/ DeployStep(r)
          \/ Cancel(r)
    \/ Tick

SpecCtx == Init /\ [][NextCtx]_vars

\* the configuration loader on every project configuration
NextConfig == \E config \in ProjectConfigs : LoadConfig(config)

SpecConfig == Init /\ [][NextConfig]_vars

\* one webhook served by a server started with or without output exposure
SpecExpose == InitExpose /\ [][NextGate]_vars

\* executors are created, and commands are added to and removed from their
\* allowed commands
NextSandbox ==
    \/ \E e \in Executors : NewSandboxedExecutor(e)
    \/ \E e \in Executors, cmd \in Commands : AddAllowedCommand(e, cmd)
    \/ \E e \in Executors, cmd \in Commands : RemoveAllowedCommand(e, cmd)

SpecSandbox == Init /\ [][NextSandbox]_vars

\* the requests of one address through the rate limiting middlewares
NextRate ==
    \/ \E route \in Routes : Serve(route)
    \/ RateTick

SpecRate == InitOps /\ [][NextRate]_vars

\* one webhook, with Server.Shutdown called beside it
NextShutdown ==
    \/ \E in \in MainRequests : Receive(1, in)
    \/ TryLockMu(1)
    \/ TryLockMap(1)
    \/ TryLockTry(1)
    \/ Accept(1)
    \/ Spawn(1)
    \/ DeployStep(1)
    \/ ShutdownWait
    \/ ShutdownClose
    \/ Tick

SpecShutdown == InitOps /\ [][NextShutdown]_vars

(***************************************************************************)
(* Properties.                                                             *)
(***************************************************************************)
TerminalStatuses == {"success", "failed", "skipped"}
AllStatuses == TerminalStatuses \cup {"rejected", "in_progress"}

\* the ids of the history rows written for request r with one of the statuses
RowsOf(r, statuses) ==
    { i \in DOMAIN history : history[i].by = r /\ history[i].status \in statuses }

\* request r is between its successful TryLock and its deferred Mutex.Unlock
Executing(r) ==
    \/ hpc[r] \in {"accept", "spawn"}
    \/ gpc[r] \in {"create", "shared", "postdeploy", "cut_rm", "cut_link", "cut_rename",
                  "cut_cleanup", "postactivate", "retain_read", "retain_rm", "record",
                  "unlock_mu", "unlock_map", "unlock_mutex"}

\* the header of request r is sha256= followed by the HMAC of the received
\* body under the secret of the project it names
GenuineSignature(r) ==
    /\ RegistryHas(req[r].name)
    /\ req[r].sig = SigHeader("sha256=", <<Registry[req[r].name].Secret, req[r].body>>)

Position(seq, x) == CHOOSE i \in DOMAIN seq : seq[i] = x
Did(r, step) == \E i \in DOMAIN steps[r] : steps[r][i] = step

\* C1: for every project, at every instant, at most one request is between
\* its successful TryLock and its deferred Unlock, under every interleaving
\* of the webhook requests.
C1_AtMostOneDeployment ==
    \A p \in Projects :
        Cardinality({ r \in Slots : req[r].name = p /\ Executing(r) }) <= 1

\* a deployment is executing while a second request for the same project has
\* found the mutex held
C1_Witness ==
    \E r1, r2 \in Slots :
        /\ r1 # r2
        /\ req[r1].name = req[r2].name
        /\ gpc[r1] = "postdeploy"
        /\ lockSeen[r2] = "held"

\* C2 (as stated): at the step in which Execute fails at materialize, shared
\* sync, post-deploy or cutover, current resolves to the release it pointed
\* to when the deployment took the lock.
C2_FailureKeepsCurrent ==
    [][\A r \in Slots :
          (res[r] = NoResult /\ res'[r].stage \in {"create", "shared", "postdeploy", "cutover"})
             => current'[req[r].name] = pre[r]]_vars

C4_ParseAfterVerify ==
    \A r \in Slots :
        Did(r, "parse") =>
            /\ Did(r, "verify")
            /\ Position(steps[r], "verify") < Position(steps[r], "parse")
            /\ GenuineSignature(r)

\* a correctly signed body that is not JSON was decoded and refused
C4_Witness ==
    \E r \in Slots :
        /\ Did(r, "parse")
        /\ req[r].body = "b_garbage"
        /\ resp[r] = Response(StatusBadRequest, "Invalid JSON payload")

\* C5: a request is answered 202 only if its project is registered, its
\* signature is the HMAC of the raw body, its ref is refs/heads/<branch>, and
\* its own TryLock found the project's mutex free.
C5_AcceptedOnlyIf ==
    \A r \in Slots :
        resp[r].code = StatusAccepted =>
            /\ req[r].name \in Projects
            /\ GenuineSignature(r)
            /\ JSONUnmarshal(req[r].body).isStr
            /\ JSONUnmarshal(req[r].body).ref = "refs/heads/" \o Registry[req[r].name].Branch
            /\ lockSeen[r] = "free"

\* a second request is answered 202 after the first deployment released the
\* lock, beside requests that were refused
C5_Witness ==
    \E r1, r2 \in Slots :
        /\ r1 # r2
        /\ resp[r1].code = StatusAccepted
        /\ resp[r2].code = StatusAccepted
        /\ unlocks[r1] = 1

\* C6 (as stated): a request whose TryLock found the mutex held is answered
\* 429 "Deployment already in progress" and has exactly one row, status
\* rejected.
C6_RejectedRecorded ==
    \A r \in Slots :
        (hpc[r] = "done" /\ lockSeen[r] = "held") =>
            /\ resp[r] = Response(StatusTooManyRequests, "Deployment already in progress")
            /\ Cardinality(RowsOf(r, {"rejected"})) = 1
            /\ Cardinality(RowsOf(r, AllStatuses)) = 1

\* C6 (amended): a request whose TryLock found the mutex held is answered 429
\* "Deployment already in progress"; its rows are at most one, with status
\* rejected, and there is one exactly when the server is not in test mode and
\* the insert succeeded.
C6_RejectedRecordedIfInserted ==
    \A r \in Slots :
        (hpc[r] = "done" /\ lockSeen[r] = "held") =>
            /\ resp[r] = Response(StatusTooManyRequests, "Deployment already in progress")
            /\ gpc[r] = "none"
            /\ RowsOf(r, AllStatuses) = RowsOf(r, {"rejected"})
            /\ Cardinality(RowsOf(r, AllStatuses)) = (IF insert[r] = "ok" THEN 1 ELSE 0)
            /\ testMode <=> insert[r] = "none"

\* a push was refused and recorded while a deployment of its project ran
C6_Witness ==
    \E r1, r2 \in Slots :
        /\ r1 # r2
        /\ Executing(r1)
        /\ req[r2].name = req[r1].name
        /\ hpc[r2] = "done"
        /\ lockSeen[r2] = "held"
        /\ Cardinality(RowsOf(r2, {"rejected"})) = 1

\* C7: after every webhook answered 202 the goroutine of its deployment
\* calls Mutex.Unlock, whatever Execute returned and however the insert
\* ended; it never calls it twice, and the call leaves the mutex free.
C7_LockReleasedOnce ==
    /\ [](\A r \in Slots : unlocks[r] <= 1)
    /\ [][\A r \in Slots : unlocks'[r] # unlocks[r] => ~locked'[req[r].name]]_vars
    /\ \A r \in Slots :
          (resp[r].code = StatusAccepted) ~> (unlocks[r] = 1 /\ gpc[r] = "exit")

\* after a deployment that failed released the lock, a later webhook for the
\* same project acquired it
C7_Witness ==
    \E r1, r2 \in Slots :
        /\ r1 # r2
        /\ req[r1].name = req[r2].name
        /\ StatusOf(res[r1]) = "failed"
        /\ unlocks[r1] = 1
        /\ lockSeen[r2] = "free"
        /\ Executing(r2)

\* C8 (as stated): while a project's mutex is held, every step that changes
\* its current link, its temporary link or its release directories is a step
\* of the deployment that holds the mutex; the restore command changes none
\* of them.
C8_OnlyHolderMutates ==
    [][\A p \in Projects :
          (locked[p] /\ <<releases'[p], current'[p], tmpLink'[p]>> # <<releases[p], current[p], tmpLink[p]>>)
             => \E r \in Slots : req[r].name = p /\ gpc'[r] # gpc[r]]_vars

\* C9 (as stated): at the step that ends the retention stage of a
\* deployment, current points to a release directory that exists.
C9_RetentionKeepsCurrent ==
    [][\A r \in Slots :
          (gpc[r] \in {"retain_read", "retain_rm"} /\ gpc'[r] = "record")
             => Resolves(current'[req[r].name], releases'[req[r].name])]_vars

\* the position of release x in the listing of dirs, newest first
Rank(dirs, x) == Cardinality({ y \in dirs : y >= x })

\* C10 (as stated): when Execute has returned success or failure, the release
\* directories are at most DefaultKeepReleases, unless current points to an
\* entry older than the DefaultKeepReleases - 1 newest.
C10_AtMostKReleases ==
    \A r \in Slots :
        (gpc[r] = "record" /\ StatusOf(res[r]) \in {"success", "failed"}) =>
            \/ Cardinality(releases[req[r].name]) <= DefaultKeepReleases
            \/ \E c \in current[req[r].name] \cap releases[req[r].name] :
                  Rank(releases[req[r].name], c) > DefaultKeepReleases - 1

\* a cutover of project p, or a restore of it, is under way
Repositioning(p) ==
    \/ \E r \in Slots :
          req[r].name = p /\ gpc[r] \in {"cut_rm", "cut_link", "cut_rename", "cut_cleanup"}
    \/ p = RestoreProject /\ rpc # "idle"

\* C11 (as stated): at every instant of a cutover or of a restore, current is
\* a symlink that resolves to an existing release directory.
C11_CurrentResolves ==
    \A p \in Projects :
        Repositioning(p) => Resolves(current[p], releases[p])

\* the positions in the trace of request r of the calls of a stage
CallsOf(r, stage) == { i \in DOMAIN trace[r] : trace[r][i].stage = stage }

\* C12 (as stated): in every deployment the shared-file sync and the cutover
\* come after a git update (git reset --hard HEAD, git pull origin <branch>)
\* of the new release directory.
C12_GitUpdateBeforeActivation ==
    \A r \in Slots :
        \A i \in CallsOf(r, "shared") \cup CallsOf(r, "cutover") :
            \E j \in CallsOf(r, "gitpull") : j < i

\* C13: a call of the Executor that failed (an error or an exit code other
\* than 0) is the last call of its deployment, and Execute returned a
\* failure at it; so no cutover follows a failed materialize, shared sync or
\* post-deploy command.  (A failed listing in the retention stage, the last
\* stage, is only logged.)
C13_FailureAborts ==
    \A r \in Slots :
        \A i \in DOMAIN trace[r] :
            trace[r][i].failed =>
                /\ i = Len(trace[r])
                /\ trace[r][i].stage # "retain" =>
                      (res[r] # NoResult /\ StatusOf(res[r]) = "failed")

\* the second post-deploy command failed: the deployment ended there, with
\* current where it was
C13_Witness ==
    \E r \in Slots :
        /\ gpc[r] = "exit"
        /\ Len(trace[r]) = 2 + NumPostDeploy
        /\ trace[r][Len(trace[r])] = Call("postdeploy", TRUE)
        /\ current[req[r].name] = pre[r]

\* C14 (as stated), at the boundary before the cutover: a deployment whose
\* context is done when the post-deploy stage has ended does not start the
\* cutover; Execute returns a cancelled (408) result there.
C14_CancelledBeforeCutover ==
    [][\A r \in Slots :
          (ctxDone[r] /\ gpc[r] = "cut_rm" /\ gpc'[r] # gpc[r])
             => res'[r].code = StatusRequestTimeout]_vars

\* C15 (as stated): when Shutdown closes the history, every request already
\* answered 202 has finished its deployment; so no accepted deployment
\* attempts its insert on a closed connection.
C15_CloseAfterDrain ==
    /\ [][(spc = "close" /\ spc' = "done") =>
             \A r \in Slots : resp[r].code = StatusAccepted => gpc[r] = "exit"]_vars
    /\ [](\A r \in Slots : resp[r].code = StatusAccepted => insert[r] # "closed")

\* request r has been received
Received(r) == hpc[r] # "idle"

\* request r names a registered project and its signature header is not
\* sha256= followed by the HMAC of its body under that project's secret
BadSignature(r) == req[r].name \in Projects /\ ~GenuineSignature(r)

\* request r passes the checks the handler makes before the signature
ReachesSignature(r) ==
    /\ req[r].name \in Projects
    /\ req[r].clen <= MaxPayloadBytes
    /\ req[r].ctype = "application/json"
    /\ req[r].event = "push"
    /\ ~req[r].readErr

\* C16 (as stated): every request for a project whose signature is missing,
\* malformed or made with a wrong secret is answered 403.
C16_BadSignatureForbidden ==
    \A r \in Slots :
        (Received(r) /\ BadSignature(r)) => resp[r].code = StatusForbidden

\* C16 (amended): a request with a missing, malformed or wrong signature that
\* passes the checks made before the signature is answered 403 "Invalid
\* signature" whatever its body; one stopped by an earlier check is answered
\* 413, 415, 200 "Ignoring non-push event" or 500; in no case is its body
\* decoded, the lock tried or a deployment started.
C16_BadSignatureNeverPasses ==
    \A r \in Slots :
        (Received(r) /\ BadSignature(r)) =>
            /\ ReachesSignature(r) => resp[r] = Response(StatusForbidden, "Invalid signature")
            /\ ~ReachesSignature(r) =>
                  resp[r] \in { Response(StatusRequestEntityTooLarge, "Payload too large"),
                                Response(StatusUnsupportedMediaType, "Invalid content type"),
                                Response(StatusOK, "Ignoring non-push event"),
                                Response(StatusInternalServerError, "Failed to read payload") }
            /\ ~Did(r, "parse") /\ ~Did(r, "trylock")
            /\ hpc[r] = "done" /\ gpc[r] = "none"

\* a push to the target branch signed with a wrong secret, and a body that
\* is not JSON with a sha1= header, were both answered 403
C16_Witness ==
    \E r \in Slots :
        /\ resp[r] = Response(StatusForbidden, "Invalid signature")
        /\ req[r].body \in {"b_main", "b_garbage"}
        /\ req[r].sig.digest[1] = "s_wrong" \/ req[r].sig.prefix = "sha1="

Refusals ==
    { StatusBadRequest, StatusForbidden, StatusNotFound,
      StatusRequestEntityTooLarge, StatusUnsupportedMediaType }

\* C17: the handler of a request answered 400, 403, 404, 413 or 415 has
\* returned; the request has no history row, has not tried the lock and has
\* started no deployment; the step that answers
\* it changes no lock, no history row and nothing under the project root.
C17_RefusalChangesNothing ==
    /\ [](\A r \in Slots :
            resp[r].code \in Refusals =>
                /\ hpc[r] = "done"
                /\ RowsOf(r, AllStatuses) = {}
                /\ insert[r] = "none"
                /\ lockSeen[r] = "none"
                /\ gpc[r] = "none" /\ trace[r] = << >>)
    /\ [][\A r \in Slots :
            (resp'[r] # resp[r] /\ resp'[r].code \in Refusals)
               => UNCHANGED <<fsVars, lmVars, history, deployWg>>]_vars

\* a request with an oversized body was refused while nothing was locked
\* and nothing recorded
C17_Witness ==
    \E r \in Slots :
        /\ resp[r] = Response(StatusRequestEntityTooLarge, "Payload too large")
        /\ hpc[r] = "done"
        /\ history = << >>
        /\ \A p \in Projects : ~locked[p]

\* C18 (as stated): a deployment is started only for a request whose
\* X-GitHub-Event is push.
C18_EngineOnlyForPush ==
    \A r \in Slots :
        (Did(r, "trylock") \/ gpc[r] # "none") => req[r].event = "push"

\* request r is a correctly signed push event for a registered project whose
\* payload names a ref other than the project's branch
NonTargetPush(r) ==
    /\ Received(r)
    /\ ReachesSignature(r)
    /\ GenuineSignature(r)
    /\ JSONUnmarshal(req[r].body).ok
    /\ JSONUnmarshal(req[r].body).len > 0
    /\ JSONUnmarshal(req[r].body).isStr
    /\ ~MatchesRef(Registry[req[r].name].Branch, JSONUnmarshal(req[r].body).ref)

\* C19: a correctly signed push to a non-target branch is answered 200
\* "Not target branch, skipping"; it never calls TryLock, starts no
\* deployment, creates no release and writes no history row, and the step
\* that answers it leaves the file system, the locks and the history as they
\* were, whether or not a deployment of that project is in progress.
C19_NonTargetSkipped ==
    /\ [](\A r \in Slots :
            NonTargetPush(r) =>
                /\ resp[r] = Response(StatusOK, "Not target branch, skipping")
                /\ hpc[r] = "done"
                /\ lockSeen[r] = "none"
                /\ insert[r] = "none"
                /\ RowsOf(r, AllStatuses) = {}
                /\ gpc[r] = "none" /\ trace[r] = << >>)
    /\ [][\A r \in Slots :
            (~Received(r) /\ NonTargetPush(r)')
               => UNCHANGED <<fsVars, lmVars, history, deployWg>>]_vars

\* a push to a non-target branch was answered 200 while another request's
\* deployment of the same project held the lock
C19_Witness ==
    \E r1, r2 \in Slots :
        /\ r1 # r2
        /\ req[r1].name = req[r2].name
        /\ Executing(r1) /\ locked[req[r1].name]
        /\ NonTargetPush(r2)
        /\ resp[r2] = Response(StatusOK, "Not target branch, skipping")

\* the goroutine of request r has been started
Started(r) == gpc[r] # "none"

C22_ProjectsIndependent ==
    /\ [][\A r \in Slots :
            /\ (hpc[r] = "lock_try" /\ hpc'[r] # "lock_try") =>
                  /\ hpc'[r] = "reject" <=> locked[req[r].name]
                  /\ hpc'[r] = "accept" <=> ~locked[req[r].name]
                  /\ \A p \in Projects \ {req[r].name} : locked'[p] = locked[p]
            /\ unlocks'[r] # unlocks[r] =>
                  \A p \in Projects \ {req[r].name} : locked'[p] = locked[p]]_vars
    /\ [](\A r \in Slots :
            resp[r].code = StatusTooManyRequests =>
                \E r2 \in Slots \ {r} :
                    req[r2].name = req[r].name /\ lockSeen[r2] = "free")

\* deployments of the two projects are in progress at the same time, each
\* accepted while the other held its own project's lock
C22_Witness ==
    \E r1, r2 \in Slots :
        /\ req[r1].name # req[r2].name
        /\ Executing(r1) /\ Executing(r2)
        /\ gpc[r1] = "postdeploy"
        /\ resp[r2].code = StatusAccepted
        /\ locked[req[r1].name] /\ locked[req[r2].name]

\* the calls of request r's deployment other than the retention stage's
StagesOf(r) == SelectSeq(trace[r], LAMBDA c : c.stage # "retain")

\* the calls of a deployment all of whose stages completed
FullRun ==
    <<Call("create", FALSE), Call("shared", FALSE)>>
        \o [i \in 1..NumPostDeploy |-> Call("postdeploy", FALSE)]
        \o <<Call("cutover", FALSE)>>
        \o [i \in 1..NumPostActivate |-> Call("postactivate", FALSE)]

\* C23: every recorded row is success, failed or rejected; the row of a
\* request is rejected exactly when its TryLock found the mutex held; the row
\* of an accepted request is success exactly when every stage up to and
\* including the post-activate commands completed (whether or not the
\* retention stage failed) and failed otherwise, and every failed row
\* carries an error message.
C23_StatusRecorded ==
    \A i \in DOMAIN history :
        LET row == history[i]
            r == row.by
        IN  /\ row.status \in {"success", "failed", "rejected"}
            /\ row.status = "rejected" <=> lockSeen[r] = "held"
            /\ row.status = "success" <=> (lockSeen[r] = "free" /\ StagesOf(r) = FullRun)
            /\ row.status = "failed" <=> (lockSeen[r] = "free" /\ StagesOf(r) # FullRun)
            /\ row.status \in {"failed", "rejected"} => row.hasError
            /\ row.status = "success" => ~row.hasError

\* one deployment whose retention stage failed is recorded as success, and
\* one that was cancelled is recorded as failed
C23_Witness ==
    \E i, j \in DOMAIN history :
        /\ history[i].status = "success"
        /\ \E k \in DOMAIN trace[history[i].by] : trace[history[i].by][k] = Call("retain", TRUE)
        /\ history[j].status = "failed"
        /\ res[history[j].by].code = StatusRequestTimeout

\* the step at which the restore command succeeds: the rename of current.tmp
\* over current, after which it returns the pair (rcur, rprev)
RestoreSucceeds == rpc = "rename" /\ rres' = "ok"

\* C24 (as stated): the step of a successful restore moves current from the
\* release c the command returns as the old one to the release that follows
\* c in the release names sorted in descending order, which it returns as
\* the new one, and leaves the release directories as they were.
C24_RestoreRepoints ==
    [][RestoreSucceeds =>
          /\ current[RestoreProject] = rcur
          /\ current'[RestoreProject] = rprev
          /\ rprev = PreviousRelease(releases[RestoreProject], Newest(rcur))
          /\ releases' = releases]_vars

\* the release the restore command resolved current to has no older release
\* beside it
NothingOlder == ~\E x \in releases[RestoreProject] : x < Newest(rcur)

\* C25: a restore that finds no release older than the one current resolved
\* to (current is the oldest or the only release) ends with an error at the
\* selection; a restore goes on to the swap only with a release older than
\* the current one; and every step at which a restore ends with an error
\* leaves current as it was.
C25_RestoreOldestFails ==
    /\ [][(rpc = "list" /\ rpc' # "list" /\ NothingOlder) =>
              (rres' = "error" /\ rpc' = "idle")]_vars
    /\ [](rpc \in {"rm", "link", "rename", "cleanup"} =>
              (rprev # {} /\ rcur # {} /\ Newest(rprev) < Newest(rcur)))
    /\ [][(rres' = "error" /\ (rres # "error" \/ rpc' # rpc)) =>
              current' = current]_vars

\* two releases, the newer one deployed successfully; a restore moved
\* current to the older one, and the restore after it ended with an error,
\* current still on the older one
C25_Witness ==
    LET names == releases[RestoreProject] IN
    /\ Cardinality(names) = 2
    /\ \E i \in DOMAIN history : history[i].status = "success"
    /\ gpc[1] = "exit"
    /\ current[RestoreProject] = {CHOOSE x \in names : \A y \in names : x <= y}
    /\ rpc = "idle"
    /\ rres = "error"

\* request r has been answered 429, or its deployment has ended
Finished(r) ==
    \/ resp[r].code = StatusTooManyRequests /\ hpc[r] = "done"
    \/ gpc[r] = "exit"

\* how request r ended: rejected, or the status of what Execute returned
OutcomeOf(r) ==
    IF resp[r].code = StatusTooManyRequests THEN "rejected" ELSE StatusOf(res[r])

\* no call of request r's deployment failed for a reason outside the server:
\* the only failed call, if any, is the copy of a release that still bears
\* the name of the current second
NoOutsideFailure(r) ==
    \A i \in DOMAIN trace[r] :
        trace[r][i].failed => (trace[r][i].stage = "create" /\ pre[r] = {now})

\* C26 (as stated): when the same valid webhook is delivered twice for one
\* project, nothing outside the server fails and one of the two deliveries
\* ends in a success, the other one ends in a rejection or in a success.
C26_ReplayOutcomes ==
    \A r1, r2 \in Slots :
        ( /\ r1 < r2
          /\ req[r1] = PushTo("app", "b_main", "valid")
          /\ req[r2] = req[r1]
          /\ Finished(r1) /\ Finished(r2)
          /\ NoOutsideFailure(r1) /\ NoOutsideFailure(r2)
          /\ "success" \in {OutcomeOf(r1), OutcomeOf(r2)} )
        => \/ {OutcomeOf(r1), OutcomeOf(r2)} = {"success", "rejected"}
           \/ {OutcomeOf(r1), OutcomeOf(r2)} = {"success"}

\* C27 (as stated), for the first period of each limiter: the global limiter
\* admits at most 12 requests of an address in the first hour, and the
\* webhook limiter at most 4 in the first minute.
C27_AtMostLimitPerPeriod ==
    \A l \in Limiters : admitted[l] <= LimitOf(l)

\* C28: a request to /health or /status is refused only when the address's
\* global bucket has no token, however empty its webhook bucket is; serving
\* it leaves the webhook bucket as it was and takes a global token exactly
\* when the global limiter admits it; a request to the webhook route goes
\* through both limiters.
C28_WebhookLimiterOnlyOnWebhook ==
    /\ [](rlLast.route \in {"health", "status"} => rlLast.by # "webhook")
    /\ [][(rlLast'.route \in {"health", "status"} /\ rlClock' = rlClock) =>
              /\ bucket'["webhook"] = bucket["webhook"]
              /\ admitted'["webhook"] = admitted["webhook"]
              /\ (rlLast'.by = "global") <=> ~Allow(bucket["global"])
              /\ (rlLast'.by = "none") => bucket'["global"] = Take(bucket["global"])]_vars
    /\ [][(rlLast'.route = "webhook" /\ rlClock' = rlClock /\ rlLast'.by = "none") =>
              /\ bucket'["webhook"] = Take(bucket["webhook"])
              /\ bucket'["global"] = Take(bucket["global"])]_vars

\* a status request is served in the first tick, after four webhooks of the
\* address have emptied its webhook bucket
C28_Witness ==
    /\ rlLast = Served("status", "none")
    /\ ~Allow(bucket["webhook"])
    /\ admitted["webhook"] >= WebhookRateLimit
    /\ rlClock = 0

\* the task that holds the map mutex is inside the lookup of TryLock or of
\* Unlock, and the step that ends the lookup and releases the mutex is
\* enabled
HolderCanStep ==
    \E r \in Slots :
        \/ mu = HandlerTask(r) /\ hpc[r] = "lock_map" /\ ENABLED TryLockMap(r)
        \/ mu = GoTask(r) /\ gpc[r] = "unlock_map" /\ ENABLED UnlockMap(r)

\* C29: the map mutex is held only during a lookup, whose next step
\* releases it and is always enabled; a caller waiting for the map mutex
\* can take it as soon as it is free; the try of the project mutex and its
\* release are always enabled, whether the mutex is held or free: no state
\* has a caller of TryLock or Unlock waiting for something that cannot
\* happen, for requests of the same and of different projects.
C29_LockManagerNeverBlocks ==
    /\ [](/\ mu # NoTask => HolderCanStep
          /\ \A r \in Slots :
                /\ hpc[r] = "lock_mu" =>
                      (IF mu = NoTask THEN ENABLED TryLockMu(r) ELSE HolderCanStep)
                /\ gpc[r] = "unlock_mu" =>
                      (IF mu = NoTask THEN ENABLED UnlockMu(r) ELSE HolderCanStep)
                /\ hpc[r] = "lock_try" => ENABLED TryLockTry(r)
                /\ gpc[r] = "unlock_mutex" => ENABLED UnlockMutex(r))
    /\ [][\A r \in Slots :
            /\ (mu = HandlerTask(r) /\ hpc'[r] # hpc[r]) => mu' = NoTask
            /\ (mu = GoTask(r) /\ gpc'[r] # gpc[r]) => mu' = NoTask]_vars

\* a handler is about to call TryLock on a project whose lock is held while
\* the goroutine of the other request holds the map mutex inside Unlock
C29_Witness ==
    \E r1, r2 \in Slots :
        /\ r1 # r2
        /\ mu = GoTask(r1)
        /\ hpc[r2] = "lock_mu"
        /\ locked[req[r2].name]

\* C30 (as stated): every map GetAllProjectsStatus can return has exactly
\* the projects with at least one row as its keys, and maps each of them to
\* the row GetLatestDeployment returns for it.
C30_StatusIsLatest ==
    \A m \in GetAllProjectsStatus(history) :
        /\ DOMAIN m = { p \in Projects : RowsFor(history, p) # {} }
        /\ \A p \in DOMAIN m : {m[p]} = GetLatestDeployment(history, p)

\* C31 (as stated): a project the loader accepts has a secret of at least 48
\* characters.
C31_SecretAtLeast48 ==
    loaded.accepted => loaded.config.secretLen >= SecurityMinSecretLength

\* C32 (as stated): the body of the response to a webhook whose deployment
\* has run to its end includes the subprocess output exactly when output
\* exposure is enabled.
C32_OutputIffExposed ==
    \A r \in Slots :
        (gpc[r] = "exit" /\ resp[r].code # 0)
            => (("output" \in BodyKeys(resp[r])) <=> exposeOutput)

\* the map Execute returned carries the output exactly when exposure is
\* enabled; it is the map that is recorded, not the one that is sent
C32_ExecuteOutputIffExposed ==
    \A r \in Slots :
        gpc[r] = "exit" => (("output" \in ResponseKeys(res[r])) <=> exposeOutput)

\* the request whose TryLock succeeded holds the project mutex until its
\* goroutine has called Mutex.Unlock
HoldsProjectMutex(r) == lockSeen[r] = "free" /\ unlocks[r] = 0

\* C33 (as stated): no task acquires the map mutex lm.mu while it holds a
\* project mutex.
C33_MapMutexNeverAfterProject ==
    [][\A r \in Slots :
          (mu = NoTask /\ mu' \in {HandlerTask(r), GoTask(r)}) => ~HoldsProjectMutex(r)]_vars

\* C34: Mutex.Unlock is called only by the goroutine of a request whose own
\* TryLock found the mutex free, on a mutex that is held, and once: a
\* goroutine that has ended has called it exactly once; a request answered
\* 429 has no goroutine and never calls it; a held mutex is released only by
\* the request that took it; and no Unlock of an unlocked mutex (a fatal
\* runtime error) happens.
C34_UnlockOnlyByHolder ==
    /\ [](/\ ~fatal
          /\ \A r \in Slots :
                /\ unlocks[r] <= 1
                /\ unlocks[r] = 1 => lockSeen[r] = "free"
                /\ gpc[r] = "exit" => unlocks[r] = 1
                /\ resp[r].code = StatusTooManyRequests =>
                      (lockSeen[r] = "held" /\ unlocks[r] = 0 /\ gpc[r] = "none"))
    /\ [][/\ \A r \in Slots :
              unlocks'[r] # unlocks[r] =>
                  (HoldsProjectMutex(r) /\ locked[LockOf(req[r].name)])
          /\ \A p \in Projects :
              (locked[p] /\ ~locked'[p]) =>
                  \E r \in Slots : /\ req[r].name = p
                                   /\ HoldsProjectMutex(r)
                                   /\ unlocks'[r] = 1]_vars

\* a deployment has ended after unlocking once, and a request for the same
\* project that was rejected while it ran has not unlocked
C34_Witness ==
    \E r1, r2 \in Slots :
        /\ r1 # r2
        /\ req[r1].name = req[r2].name
        /\ gpc[r1] = "exit" /\ unlocks[r1] = 1
        /\ resp[r2].code = StatusTooManyRequests /\ hpc[r2] = "done"
        /\ unlocks[r2] = 0
        /\ ~locked[req[r1].name]

\* a post-activate command of request r's deployment failed
PostActivateFailed(r) == \E i \in DOMAIN trace[r] : trace[r][i] = Call("postactivate", TRUE)

\* C35: the step in which a post-activate command fails leaves current and
\* the releases as they are and makes Execute return an error; the failed
\* command is the last call of that deployment, so retention is not run;
\* until the deployment releases its lock current stays on the release it
\* activated; and every history row written for it is failed.
C35_PostActivateFailure ==
    /\ [](\A r \in Slots :
            PostActivateFailed(r) =>
                /\ trace[r][Len(trace[r])] = Call("postactivate", TRUE)
                /\ \A i \in DOMAIN trace[r] : trace[r][i].stage # "retain"
                /\ StatusOf(res[r]) = "failed"
                /\ gpc[r] \notin {"retain_read", "retain_rm"}
                /\ Executing(r) => (rel[r] # {} /\ current[req[r].name] = rel[r])
                /\ RowsOf(r, AllStatuses) = RowsOf(r, {"failed"})
                /\ (gpc[r] = "exit" /\ insert[r] = "ok") => RowsOf(r, {"failed"}) # {})
    /\ [][\A r \in Slots :
            (~PostActivateFailed(r) /\ PostActivateFailed(r)') =>
                /\ UNCHANGED <<fsVars, history>>
                /\ gpc'[r] = "record"]_vars

\* a deployment whose post-activate command failed has ended with a failed
\* row, and current is on its release, which is not the release that was
\* current when it started
C35_Witness ==
    \E r \in Slots :
        /\ PostActivateFailed(r)
        /\ gpc[r] = "exit"
        /\ RowsOf(r, {"failed"}) # {}
        /\ current[req[r].name] = rel[r]
        /\ pre[r] # rel[r]

\* the cutover of request r's deployment has put current on its release
Activated(r) == \E i \in DOMAIN trace[r] : trace[r][i] = Call("cutover", FALSE)

\* request r's deployment created its release directory and ended with a
\* failure before its cutover; the directory is still there, and no other
\* deployment has activated it
Leftover(r) ==
    /\ gpc[r] = "exit"
    /\ StatusOf(res[r]) = "failed"
    /\ rel[r] # {} /\ rel[r] \subseteq releases[req[r].name]
    /\ \A i \in DOMAIN trace[r] : trace[r][i].stage # "cutover"
    /\ \A q \in Slots : (req[q].name = req[r].name /\ rel[q] = rel[r]) => ~Activated(q)

\* C36 (as stated): the step of a successful restore never puts current on
\* the release directory left behind by a deployment that failed before its
\* cutover and that no deployment has activated.
C36_RestoreToFormerlyActive ==
    [][RestoreSucceeds =>
          \A r \in Slots :
              (req[r].name = RestoreProject /\ Leftover(r)) =>
                  current'[RestoreProject] # rel[r]]_vars

\* the step at which UpdateCurrentSymlink of request r's deployment returns
\* nil, and a step at which it returns an error
CutoverSucceeds(r) == gpc[r] = "cut_rename" /\ gpc'[r] = AfterCutover
CutoverFails(r) ==
    gpc[r] \in {"cut_rm", "cut_link", "cut_cleanup"} /\ gpc'[r] = "record"

\* a step at which UpdateCurrentSymlink of the restore command returns an error
RestoreSwapFails == rpc \in {"rm", "link", "cleanup"} /\ rres' = "error"

\* C37 (as stated): with a deployment's cutover and a restore swapping
\* current through the same current.tmp, a swap that returns success leaves
\* current on its own target, and a swap that returns an error leaves
\* current off its own target.
C37_SwapInstallsOwnTarget ==
    [][/\ \A r \in Slots :
              /\ CutoverSucceeds(r) => current'[req[r].name] = rel[r]
              /\ CutoverFails(r) => current'[req[r].name] # rel[r]
       /\ RestoreSucceeds => current'[RestoreProject] = rprev
       /\ RestoreSwapFails => current'[RestoreProject] # rprev]_vars

\* C38 (as stated): the release directory CreateRelease returns to a
\* deployment did not exist before that call, and no two deployments of one
\* project have the same release directory.
C38_ReleaseDirIsFresh ==
    /\ [][\A r \in Slots :
            rel'[r] # rel[r] => rel'[r] \cap releases[req[r].name] = {}]_vars
    /\ [](\A r1, r2 \in Slots :
            (r1 # r2 /\ req[r1].name = req[r2].name /\ rel[r1] # {}) => rel[r1] # rel[r2])

\* the step at which request r's TryLock takes the project mutex
Acquires(r) == lockSeen[r] = "none" /\ lockSeen'[r] = "free"

\* the rows written for request r's deployment by executeDeployment
TerminalRows(r) == RowsOf(r, TerminalStatuses)

Accepted(e) == { cmd \in Commands : IsCommandAllowed(e, cmd) }

\* C40 (as stated): every call of AddAllowedCommand or RemoveAllowedCommand
\* is made on one executor, so no step changes the commands two executors
\* accept; and an executor accepts the default commands when it is created,
\* whatever was added to or removed from the executors before it.
C40_AllowedSetsIndependent ==
    [][/\ \A e1, e2 \in Executors :
              (e1 # e2 /\ AllowedCommands[e1] # NoExecutor /\ AllowedCommands[e2] # NoExecutor)
                  => (Accepted(e1)' = Accepted(e1) \/ Accepted(e2)' = Accepted(e2))
       /\ \A e \in Executors :
              (AllowedCommands[e] = NoExecutor /\ AllowedCommands'[e] # NoExecutor)
                  => Accepted(e)' = DefaultCommands]_vars

====
